---- MODULE Spec2Model ----
(***************************************************************************)
(* Model of the tech-finance-news pipeline: the article store, the         *)
(* processing_log ledger and its eligibility queries (src/db/queries.ts),  *)
(* the summarizer and Notion adapters, and the pipeline driver             *)
(* (src/pipeline.ts).                                                      *)
(***************************************************************************)
EXTENDS Integers, Sequences, FiniteSets, TLC

\* ------------------------------------------------------------------ bounds
NItems == 2
MaxRuns == 2
MaxLedger == 3
MaxToday == 2
MaxNow == 191
MaxTz == 2
MaxYears == 1
MaxCalls == 3
MaxBatch == 2
MaxAttempts == 4
MaxSkipped == 1

\* ------------------------------------------------------- program constants
DefaultMaxArticles == 20
MaxConcurrent == 2
ContextLimit == 100
SubstantialLength == 100
ScheduledMaxArticles == 30

Items == 1..NItems
Runs == {1, 2}
Stages == <<"scraped", "filtered", "summarized", "pushed">>
StageSet == {Stages[k] : k \in DOMAIN Stages}
Statuses == {"success", "failed", "skipped"}
MaxArticlesChoices == {1, DefaultMaxArticles}
NoBaseline == [sync |-> {}, briefings |-> {}]
Kinds == {"day", "week", "month"}

VARIABLES
    articles,          \* articles table: item -> "absent" | "empty" | "full" (content column)
    processing_log,    \* processing_log table: sequence of rows in insertion (id) order
    summaries,         \* summaries table: set of article ids (primary key article_id)
    notion_sync,       \* notion_sync table: set of [article_id, notion_page_id]
    daily_briefings,   \* daily_briefings table: set of [date, article_count]
    notionPages,       \* destination service: pages created per item
    runCount,          \* number of runPipeline invocations so far
    pc,                \* per run: position in runPipeline
    runId,             \* per run: ordinal of the invocation
    dryRun,            \* per run: options.dryRun
    maxArticles,       \* per run: options.maxArticles
    todo,              \* per run: remaining articles of the list handed to the stage
    batch,             \* per run: summarizeAndSave calls in flight (Promise.all)
    cachedSchema,      \* per run process: notion/client.ts cachedSchema initialized
    pushResult,        \* per run: NotionPushResult of the last pushArticleToNotion
    clean,             \* per run: every stage executed so far (no skip flag, no abort)
    idem,              \* per run: repeats the previous full run, no new item or body fetched
    baseline,          \* per run: notion_sync / daily_briefings when the repeat run began
    qres,              \* last result of a direct eligibility query
    synced,            \* per digest kind: rows of notion_sync x summaries in its period
    weekly_briefings,  \* weekly_briefings table
    monthly_briefings, \* monthly_briefings table
    dcall,             \* the digest call in progress, or the last one that returned
    clock,             \* current instant (hours) and local time-zone offset (hours)
    period_key,        \* the week key computed for the current instant
    today,             \* the local calendar date: year, month (0 = January), day
    target_month,      \* the month key computed for the current date
    mres,              \* the last matchArticle call: article, config and result
    mlog,              \* the matchArticle calls made so far, in order
    article_rows,      \* articles table with its key columns: set of [id, title, url]
    ingest,            \* the last saveScrapedArticles call: its articles and outcome
    content,           \* articles.content: item -> length of the stored body
    extractor,         \* per process: extractArticleContents position and article list
    retry,             \* the withRetry call in progress, or the last one that ended
    sched,             \* scheduler.ts: isRunning, runs started before the trigger, triggers skipped
    synced_at,         \* notion_sync.synced_at: item -> instant of its sync (hours, UTC)
    summarizer,        \* the summarizeArticles call: position, calls in flight, tally
    limiter,           \* a RateLimiter: time, lastCallTime, its callers and the grants
    result             \* runPipeline at step 6: its PipelineResult and how it ended

vars == <<articles, processing_log, summaries, notion_sync, daily_briefings,
          notionPages, runCount, pc, runId, dryRun, maxArticles, todo, batch,
          cachedSchema, pushResult, clean, idem, baseline, qres, synced,
          weekly_briefings, monthly_briefings, dcall, clock, period_key,
          today, target_month, mres, mlog, article_rows, ingest,
          content, extractor, retry, sched, synced_at, summarizer, limiter,
          result>>

storeVars == <<articles, processing_log, summaries, notion_sync, daily_briefings,
               notionPages>>
runVars == <<runCount, pc, runId, dryRun, maxArticles, todo, batch, cachedSchema,
             pushResult, clean, idem, baseline>>
digestVars == <<synced, weekly_briefings, monthly_briefings, dcall>>
calendarVars == <<clock, period_key>>
monthVars == <<today, target_month>>
matchVars == <<mres, mlog>>
ingestVars == <<article_rows, ingest>>
contentVars == <<content, extractor>>
procVars == <<retry, sched>>
auxVars == <<synced_at, summarizer, limiter, result>>
unitVars == <<monthVars, matchVars, ingestVars, contentVars, procVars, auxVars>>

\* ----------------------------------------------------------------- helpers
Min(a, b) == IF a < b THEN a ELSE b

Range(s) == {s[k] : k \in DOMAIN s}

NoDup(s) == \A j, k \in DOMAIN s : j # k => s[j] # s[k]

\* Array.prototype.slice(0, n)
slice(s, n) == SubSeq(s, 1, Min(n, Len(s)))

Repeat(x, n) == [k \in 1..n |-> x]

\* ORDER BY a.published_at DESC: item i is published at instant i
ByPublishedDesc == [k \in 1..NItems |-> NItems + 1 - k]

RECURSIVE Ascending(_)
Ascending(S) ==
    IF S = {} THEN <<>>
    ELSE LET m == CHOOSE x \in S : \A y \in S : x <= y
         IN <<m>> \o Ascending(S \ {m})

Row(a, stage, status, run) ==
    [article_id |-> a, stage |-> stage, status |-> status, run |-> run]

\* ------------------------------------------------------------ db/queries.ts
getPreviousStage(stage) ==
    LET index == CHOOSE k \in DOMAIN Stages : Stages[k] = stage
    IN IF index > 1 THEN Stages[index - 1] ELSE "null"

\* faulty variant: INSERT OR REPLACE keyed on (article_id, stage), which drops
\* the earlier rows of the article for the stage
logProcessingReplace(log, a, stage, status, run) ==
    Append(SelectSeq(log, LAMBDA row : ~(row.article_id = a /\ row.stage = stage)),
           Row(a, stage, status, run))

\* INSERT INTO processing_log: appends one row, no uniqueness constraint
logProcessing(log, a, stage, status, run) == Append(log, Row(a, stage, status, run))

\* rows of the INNER JOIN articles x processing_log for one article
JoinCount(a, stage, status) ==
    Cardinality({n \in DOMAIN processing_log :
        /\ processing_log[n].article_id = a
        /\ processing_log[n].stage = stage
        /\ processing_log[n].status = status})

HasEvent(a, stage) ==
    \E n \in DOMAIN processing_log :
        processing_log[n].article_id = a /\ processing_log[n].stage = stage

HasRow(a, stage, status) ==
    \E n \in DOMAIN processing_log :
        /\ processing_log[n].article_id = a
        /\ processing_log[n].stage = stage
        /\ processing_log[n].status = status

\* faulty variant: NOT IN only excludes articles with a success row at the stage
JoinRowsOfRetryFailed(a, previousStage, stage) ==
    IF articles[a] # "absent" /\ ~HasRow(a, stage, "success")
    THEN JoinCount(a, previousStage, "success") ELSE 0

\* faulty variant: the NOT IN exclusion is missing
JoinRowsOfNoExclusion(a, previousStage, stage) ==
    IF articles[a] # "absent" THEN JoinCount(a, previousStage, "success") ELSE 0

\* faulty variant: the join accepts any status at the previous stage
JoinRowsOfAnyStatus(a, previousStage, stage) ==
    IF articles[a] # "absent" /\ ~HasEvent(a, stage)
    THEN Cardinality({n \in DOMAIN processing_log :
             /\ processing_log[n].article_id = a
             /\ processing_log[n].stage = previousStage})
    ELSE 0

\* faulty variant: an article with a failed row at the previous stage is left out
JoinRowsOfNoFailure(a, previousStage, stage) ==
    IF articles[a] # "absent" /\ ~HasEvent(a, stage) /\ ~HasRow(a, previousStage, "failed")
    THEN JoinCount(a, previousStage, "success") ELSE 0

\* number of result rows for article a: one per (previousStage, success) row of
\* the join, none if a has any row at the stage (NOT IN subquery)
JoinRowsOf(a, previousStage, stage) ==
    IF articles[a] # "absent" /\ ~HasEvent(a, stage)
    THEN JoinCount(a, previousStage, "success") ELSE 0

RECURSIVE JoinRows(_, _, _)
JoinRows(k, previousStage, stage) ==
    IF k > NItems THEN <<>>
    ELSE LET a == ByPublishedDesc[k]
         IN Repeat(a, JoinRowsOf(a, previousStage, stage))
                \o JoinRows(k + 1, previousStage, stage)

RECURSIVE NotLogged(_)
NotLogged(k) ==
    IF k > NItems THEN <<>>
    ELSE LET a == ByPublishedDesc[k]
         IN (IF articles[a] # "absent"
                /\ ~(\E n \in DOMAIN processing_log : processing_log[n].article_id = a)
             THEN <<a>> ELSE <<>>) \o NotLogged(k + 1)

getArticlesNeedingProcessing(stage) ==
    LET previousStage == getPreviousStage(stage)
    IN IF previousStage # "null"
       THEN JoinRows(1, previousStage, stage)
       ELSE NotLogged(1)

\* faulty variant: looks for a (pushed, success) ledger row instead of a sync row
isArticleSyncedByLedger(a) == HasRow(a, "pushed", "success")

isArticleSynced(a) == \E s \in notion_sync : s.article_id = a

RECURSIVE UnsyncedRows(_)
UnsyncedRows(k) ==
    IF k > NItems THEN <<>>
    ELSE LET a == ByPublishedDesc[k]
             n == IF articles[a] # "absent"
                     /\ a \notin {s.article_id : s \in notion_sync}
                  THEN JoinCount(a, "summarized", "success") ELSE 0
         IN Repeat(a, n) \o UnsyncedRows(k + 1)

getUnsyncedArticles == UnsyncedRows(1)

RECURSIVE EmptyContent(_)
EmptyContent(k) ==
    IF k > NItems THEN <<>>
    ELSE (IF articles[ByPublishedDesc[k]] = "empty"
          THEN <<ByPublishedDesc[k]>> ELSE <<>>) \o EmptyContent(k + 1)

getArticlesWithEmptyContent(limit) == slice(EmptyContent(1), limit)

\* INSERT ... ON CONFLICT(article_id) DO UPDATE
recordNotionSync(sync, a, pageId) ==
    {s \in sync : s.article_id # a} \cup {[article_id |-> a, notion_page_id |-> pageId]}

getSummary(a) == a \in summaries

\* ------------------------------------------------------------------- Init
NoKey == [computed |-> FALSE, week_start |-> 0]

NoMonth == [computed |-> FALSE, year |-> 0, month |-> 0]

FirstDay == [year |-> 2024, month |-> 0, day |-> 1]

NoMatch == [called |-> FALSE]

NoIngest == [called |-> FALSE, articles |-> <<>>, saved |-> 0, failed |-> {}]

NoExtraction == [pc |-> "idle", articles |-> <<>>]

NoRetry ==
    [pc |-> "idle", maxAttempts |-> 0, attempt |-> 0, delay |-> 0, outcomes |-> <<>>,
     sleeps |-> 0, waits |-> <<>>, lastError |-> "undefined", result |-> "none",
     thrown |-> "none"]

\* no notion_sync row
NotSynced == 0 - 1

NoBatch ==
    [pc |-> "idle", articles |-> <<>>, maxConcurrent |-> 0, i |-> 0, inFlight |-> {},
     batchResults |-> {}, processed |-> 0, successful |-> 0, failed |-> 0,
     batches |-> 0, delays |-> 0]

\* a RateLimiter before its construction
NoLimiter ==
    [now |-> 0, minIntervalMs |-> 0, lastCallTime |-> 0, grants |-> <<>>,
     callers |-> <<>>]

NoResult ==
    [pc |-> "idle", scraped |-> 0, filtered |-> 0, summarized |-> 0, pushed |-> 0,
     errors |-> 0, digestResult |-> "none"]

NoCall ==
    [kind |-> "day", pc |-> "idle", existed |-> FALSE, count |-> 0, context |-> 0,
     text |-> "none", global_summary |-> [text |-> "none", count |-> 0],
     textCalled |-> FALSE, wrote |-> FALSE, pageCreated |-> FALSE, success |-> FALSE]

\* the empty database and idle processes; the number of published items in the
\* digest periods and the clock are left to the specification
InitStore ==
    /\ articles = [i \in Items |-> "absent"]
    /\ processing_log = <<>>
    /\ summaries = {}
    /\ notion_sync = {}
    /\ daily_briefings = {}
    /\ notionPages = [i \in Items |-> 0]
    /\ runCount = 0
    /\ pc = [r \in Runs |-> "idle"]
    /\ runId = [r \in Runs |-> 0]
    /\ dryRun = [r \in Runs |-> FALSE]
    /\ maxArticles = [r \in Runs |-> DefaultMaxArticles]
    /\ todo = [r \in Runs |-> <<>>]
    /\ batch = [r \in Runs |-> <<>>]
    /\ cachedSchema = [r \in Runs |-> FALSE]
    /\ pushResult = [r \in Runs |-> "none"]
    /\ clean = [r \in Runs |-> FALSE]
    /\ idem = [r \in Runs |-> FALSE]
    /\ baseline = [r \in Runs |-> NoBaseline]
    /\ qres = <<>>
    /\ weekly_briefings = {}
    /\ monthly_briefings = {}
    /\ dcall = NoCall
    /\ period_key = NoKey
    /\ today = FirstDay
    /\ target_month = NoMonth
    /\ mres = NoMatch
    /\ mlog = <<>>
    /\ article_rows = {}
    /\ ingest = NoIngest
    /\ content = [i \in Items |-> 0]
    /\ extractor = [p \in Runs |-> NoExtraction]
    /\ retry = NoRetry
    /\ sched = [isRunning |-> FALSE, base |-> 0, skipped |-> 0]
    /\ synced_at = [i \in Items |-> NotSynced]
    /\ summarizer = NoBatch
    /\ limiter = NoLimiter
    /\ result = NoResult

Init ==
    /\ InitStore
    /\ synced = [k \in Kinds |-> 0]
    /\ clock = [now |-> 0, tz |-> 0]

\* --------------------------------------------------- filter/test-filter.ts
\* keyword occurrences of the test articles: item 1 carries a keyword in its
\* title and body, item 2 only in its full body, further items carry none
TitleMatches(a) == a = 1
BodyMatches(a) == a <= 2

\* matched = score >= minScore: a title or body keyword reaches the threshold;
\* an empty body contributes nothing
matchArticle(a) == TitleMatches(a) \/ (articles[a] = "full" /\ BodyMatches(a))

RECURSIVE LogAll(_, _, _, _, _)
LogAll(log, list, stage, status, run) ==
    IF list = <<>> THEN log
    ELSE LogAll(logProcessing(log, Head(list), stage, status, run),
                Tail(list), stage, status, run)

\* --------------------------------------------------------------- pipeline.ts
SyncedIds == {s.article_id : s \in notion_sync}

StartRun(r, dryChoices, maxChoices) ==
    /\ pc[r] \in {"idle", "done"}
    /\ runCount < MaxRuns
    /\ \E d \in dryChoices, m \in maxChoices :
        LET follows == pc[r] = "done" /\ clean[r] /\ ~d /\ m = maxArticles[r]
        IN /\ dryRun' = [dryRun EXCEPT ![r] = d]
           /\ maxArticles' = [maxArticles EXCEPT ![r] = m]
           /\ clean' = [clean EXCEPT ![r] = ~d]
           /\ idem' = [idem EXCEPT ![r] = follows]
           /\ baseline' = [baseline EXCEPT ![r] =
                  IF follows
                  THEN [sync |-> notion_sync, briefings |-> daily_briefings]
                  ELSE NoBaseline]
    /\ runCount' = runCount + 1
    /\ runId' = [runId EXCEPT ![r] = runCount + 1]
    /\ pc' = [pc EXCEPT ![r] = "scrape"]
    /\ todo' = [todo EXCEPT ![r] = <<>>]
    /\ batch' = [batch EXCEPT ![r] = <<>>]
    /\ cachedSchema' = [cachedSchema EXCEPT ![r] = FALSE]
    /\ pushResult' = [pushResult EXCEPT ![r] = "none"]
    /\ UNCHANGED <<storeVars, qres, digestVars,
                   calendarVars, unitVars>>

\* a stage left out by its skip flag (or by a missing API key)
SkipTo(r, from, to) ==
    /\ pc[r] = from
    /\ pc' = [pc EXCEPT ![r] = to]
    /\ clean' = [clean EXCEPT ![r] = FALSE]
    /\ idem' = [idem EXCEPT ![r] = FALSE]
    /\ UNCHANGED <<storeVars, runCount, runId, dryRun, maxArticles, todo, batch,
                   cachedSchema, pushResult, baseline, qres, digestVars,
                   calendarVars, unitVars>>

\* Step 1: fetchRssFeeds (candidates whose url is not stored) + saveScrapedArticles
SkipScrape(r) == SkipTo(r, "scrape", "content")

Scrape(r, offered, contents) ==
    /\ pc[r] = "scrape"
    /\ \E S \in SUBSET {i \in offered : articles[i] = "absent"} :
       \E c \in [S -> contents] :
        /\ IF S # {} /\ ~dryRun[r]
           THEN /\ articles' = [i \in Items |-> IF i \in S THEN c[i] ELSE articles[i]]
                /\ processing_log' =
                       LogAll(processing_log, Ascending(S), "scraped", "success", runId[r])
           ELSE UNCHANGED <<articles, processing_log>>
        /\ idem' = [idem EXCEPT ![r] = idem[r] /\ S = {}]
    /\ pc' = [pc EXCEPT ![r] = "content"]
    /\ UNCHANGED <<summaries, notion_sync, daily_briefings, notionPages, runCount,
                   runId, dryRun, maxArticles, todo, batch, cachedSchema, pushResult,
                   clean, baseline, qres, digestVars,
                   calendarVars, unitVars>>

\* Step 2: getArticlesWithEmptyContent + extractArticleContents
SkipContent(r) == SkipTo(r, "content", "filter")

ContentBegin(r) ==
    /\ pc[r] = "content"
    /\ LET articlesToExtract == getArticlesWithEmptyContent(maxArticles[r])
       IN IF articlesToExtract # <<>> /\ ~dryRun[r]
          THEN \E browserOk \in BOOLEAN :
                 IF browserOk
                 THEN /\ pc' = [pc EXCEPT ![r] = "extract"]
                      /\ todo' = [todo EXCEPT ![r] = articlesToExtract]
                      /\ UNCHANGED <<clean, idem>>
                 ELSE \* initBrowser throws: runPipeline rethrows
                      /\ pc' = [pc EXCEPT ![r] = "done"]
                      /\ clean' = [clean EXCEPT ![r] = FALSE]
                      /\ idem' = [idem EXCEPT ![r] = FALSE]
                      /\ UNCHANGED todo
          ELSE /\ pc' = [pc EXCEPT ![r] = "filter"]
               /\ UNCHANGED <<todo, clean, idem>>
    /\ UNCHANGED <<storeVars, runCount, runId, dryRun, maxArticles, batch,
                   cachedSchema, pushResult, baseline, qres, digestVars,
                   calendarVars, unitVars>>

\* one iteration of the extractArticleContents loop
Extract(r) ==
    /\ pc[r] = "extract"
    /\ todo[r] # <<>>
    /\ LET a == Head(todo[r])
       IN \E fetched \in BOOLEAN :
            IF fetched
            THEN /\ articles' = [articles EXCEPT ![a] = "full"]
                 /\ processing_log' =
                        logProcessing(processing_log, a, "scraped", "success", runId[r])
                 /\ idem' = [idem EXCEPT ![r] = FALSE]
            ELSE /\ processing_log' =
                        logProcessing(processing_log, a, "scraped", "failed", runId[r])
                 /\ UNCHANGED <<articles, idem>>
    /\ todo' = [todo EXCEPT ![r] = Tail(todo[r])]
    /\ pc' = [pc EXCEPT ![r] = IF Tail(todo[r]) = <<>> THEN "filter" ELSE "extract"]
    /\ UNCHANGED <<summaries, notion_sync, daily_briefings, notionPages, runCount,
                   runId, dryRun, maxArticles, batch, cachedSchema, pushResult,
                   clean, baseline, qres, digestVars,
                   calendarVars, unitVars>>

\* Step 3: getArticlesNeedingProcessing('filtered') + filterArticles
SkipFilter(r) == SkipTo(r, "filter", "summarize")

filterArticles(list) ==
    [matched |-> SelectSeq(list, matchArticle),
     rejected |-> SelectSeq(list, LAMBDA a : ~matchArticle(a))]

FilterBegin(r) ==
    /\ pc[r] = "filter"
    /\ LET articlesToFilter == getArticlesNeedingProcessing("filtered")
       IN IF articlesToFilter # <<>>
          THEN /\ pc' = [pc EXCEPT ![r] = "filtering"]
               /\ todo' = [todo EXCEPT ![r] = articlesToFilter]
               /\ batch' = [batch EXCEPT ![r] = filterArticles(articlesToFilter).matched]
          ELSE /\ pc' = [pc EXCEPT ![r] = "summarize"]
               /\ UNCHANGED <<todo, batch>>
    /\ UNCHANGED <<storeVars, runCount, runId, dryRun, maxArticles, cachedSchema,
                   pushResult, clean, idem, baseline, qres, digestVars,
                   calendarVars, unitVars>>

\* faulty variant: the filter stage logs its results whatever dryRun says
FilterLogAlways(r) ==
    /\ pc[r] = "filtering"
    /\ LET matched == batch[r]
           rejected == SelectSeq(todo[r], LAMBDA a : a \notin Range(batch[r]))
       IN processing_log' =
              LogAll(LogAll(processing_log, matched, "filtered", "success", runId[r]),
                     rejected, "filtered", "skipped", runId[r])
    /\ pc' = [pc EXCEPT ![r] = "summarize"]
    /\ todo' = [todo EXCEPT ![r] = <<>>]
    /\ batch' = [batch EXCEPT ![r] = <<>>]
    /\ UNCHANGED <<articles, summaries, notion_sync, daily_briefings, notionPages,
                   runCount, runId, dryRun, maxArticles, cachedSchema, pushResult,
                   clean, idem, baseline, qres, digestVars,
                   calendarVars, unitVars>>

\* the logging loops over matched and rejected
FilterLog(r) ==
    /\ pc[r] = "filtering"
    /\ LET matched == batch[r]
           rejected == SelectSeq(todo[r], LAMBDA a : a \notin Range(batch[r]))
       IN IF ~dryRun[r]
          THEN processing_log' =
                 LogAll(LogAll(processing_log, matched, "filtered", "success", runId[r]),
                        rejected, "filtered", "skipped", runId[r])
          ELSE UNCHANGED processing_log
    /\ pc' = [pc EXCEPT ![r] = "summarize"]
    /\ todo' = [todo EXCEPT ![r] = <<>>]
    /\ batch' = [batch EXCEPT ![r] = <<>>]
    /\ UNCHANGED <<articles, summaries, notion_sync, daily_briefings, notionPages,
                   runCount, runId, dryRun, maxArticles, cachedSchema, pushResult,
                   clean, idem, baseline, qres, digestVars,
                   calendarVars, unitVars>>

\* Step 4: getArticlesNeedingProcessing('summarized') + summarizeArticles
SkipSummarize(r) == SkipTo(r, "summarize", "push")

RemoveAt(s, k) == SubSeq(s, 1, k - 1) \o SubSeq(s, k + 1, Len(s))

SummarizeBegin(r) ==
    /\ pc[r] = "summarize"
    /\ LET articlesToSummarize == getArticlesNeedingProcessing("summarized")
           list == slice(articlesToSummarize, maxArticles[r])
       IN IF articlesToSummarize # <<>> /\ ~dryRun[r]
          THEN /\ pc' = [pc EXCEPT ![r] = "summarizing"]
               /\ batch' = [batch EXCEPT ![r] = slice(list, MaxConcurrent)]
               /\ todo' = [todo EXCEPT ![r] = SubSeq(list, MaxConcurrent + 1, Len(list))]
          ELSE /\ pc' = [pc EXCEPT ![r] = "push"]
               /\ UNCHANGED <<todo, batch>>
    /\ UNCHANGED <<storeVars, runCount, runId, dryRun, maxArticles, cachedSchema,
                   pushResult, clean, idem, baseline, qres, digestVars,
                   calendarVars, unitVars>>

\* faulty variant: a failed summarization is logged and rethrown, which ends the
\* batch and the run
summarizeAndSaveRethrows(r) ==
    /\ pc[r] = "summarizing"
    /\ \E k \in DOMAIN batch[r] :
        LET a == batch[r][k]
            rest == RemoveAt(batch[r], k)
        IN \E summarized \in BOOLEAN :
             IF summarized
             THEN /\ summaries' = summaries \cup {a}
                  /\ processing_log' =
                       logProcessing(processing_log, a, "summarized", "success", runId[r])
                  /\ IF rest # <<>>
                     THEN /\ batch' = [batch EXCEPT ![r] = rest]
                          /\ UNCHANGED <<todo, pc>>
                     ELSE /\ batch' = [batch EXCEPT ![r] = slice(todo[r], MaxConcurrent)]
                          /\ todo' = [todo EXCEPT ![r] =
                                        SubSeq(todo[r], MaxConcurrent + 1, Len(todo[r]))]
                          /\ pc' = [pc EXCEPT ![r] =
                                      IF todo[r] = <<>> THEN "push" ELSE "summarizing"]
             ELSE /\ processing_log' =
                       logProcessing(processing_log, a, "summarized", "failed", runId[r])
                  /\ batch' = [batch EXCEPT ![r] = <<>>]
                  /\ todo' = [todo EXCEPT ![r] = <<>>]
                  /\ pc' = [pc EXCEPT ![r] = "done"]
                  /\ UNCHANGED summaries
    /\ UNCHANGED <<articles, notion_sync, daily_briefings, notionPages, runCount,
                   runId, dryRun, maxArticles, cachedSchema, pushResult, clean, idem,
                   baseline, qres, digestVars,
                   calendarVars, unitVars>>

\* one summarizeAndSave call of the batch in flight settles
summarizeAndSave(r) ==
    /\ pc[r] = "summarizing"
    /\ \E k \in DOMAIN batch[r] :
        LET a == batch[r][k]
            rest == RemoveAt(batch[r], k)
        IN /\ \E summarized \in BOOLEAN :
                IF summarized
                THEN /\ summaries' = summaries \cup {a}
                     /\ processing_log' =
                          logProcessing(processing_log, a, "summarized", "success", runId[r])
                ELSE /\ processing_log' =
                          logProcessing(processing_log, a, "summarized", "failed", runId[r])
                     /\ UNCHANGED summaries
           /\ IF rest # <<>>
              THEN /\ batch' = [batch EXCEPT ![r] = rest]
                   /\ UNCHANGED <<todo, pc>>
              ELSE /\ batch' = [batch EXCEPT ![r] = slice(todo[r], MaxConcurrent)]
                   /\ todo' = [todo EXCEPT ![r] =
                                 SubSeq(todo[r], MaxConcurrent + 1, Len(todo[r]))]
                   /\ pc' = [pc EXCEPT ![r] =
                               IF todo[r] = <<>> THEN "push" ELSE "summarizing"]
    /\ UNCHANGED <<articles, notion_sync, daily_briefings, notionPages, runCount,
                   runId, dryRun, maxArticles, cachedSchema, pushResult, clean, idem,
                   baseline, qres, digestVars,
                   calendarVars, unitVars>>

\* Step 5: getUnsyncedArticles + pushArticlesToNotion
SkipPush(r) == SkipTo(r, "push", "done")

NotionUnavailable(r) == SkipTo(r, "push", "digest")

PushBegin(r) ==
    /\ pc[r] = "push"
    /\ LET articlesToPush == getUnsyncedArticles
       IN IF articlesToPush # <<>> /\ ~dryRun[r]
          THEN /\ pc' = [pc EXCEPT ![r] = "pushing"]
               /\ todo' = [todo EXCEPT ![r] = slice(articlesToPush, maxArticles[r])]
          ELSE /\ pc' = [pc EXCEPT ![r] = "digest"]
               /\ UNCHANGED todo
    /\ UNCHANGED <<storeVars, runCount, runId, dryRun, maxArticles, batch,
                   cachedSchema, pushResult, clean, idem, baseline, qres, digestVars,
                   calendarVars, unitVars>>

\* pushArticlesToNotion moves on to the next article of its loop
NextArticle(r) ==
    /\ todo' = [todo EXCEPT ![r] = Tail(todo[r])]
    /\ pc' = [pc EXCEPT ![r] = IF Tail(todo[r]) = <<>> THEN "digest" ELSE "pushing"]

pushArticleToNotion(r) ==
    /\ pc[r] = "pushing"
    /\ LET a == Head(todo[r])
       IN IF isArticleSynced(a)
          THEN /\ pushResult' = [pushResult EXCEPT ![r] = "skipped"]
               /\ NextArticle(r)
          ELSE IF ~getSummary(a)
          THEN /\ pushResult' = [pushResult EXCEPT ![r] = "failed"]
               /\ NextArticle(r)
          ELSE /\ pc' = [pc EXCEPT ![r] = "notion"]
               /\ UNCHANGED <<todo, pushResult>>
    /\ UNCHANGED <<storeVars, runCount, runId, dryRun, maxArticles, batch,
                   cachedSchema, clean, idem, baseline, qres, digestVars,
                   calendarVars, unitVars>>

\* the step of pushToNotion's try block that throws, or none
PushOutcomes == {"schema", "create", "recordNotionSync", "logProcessing", "none"}

pushToNotion(r, faults) ==
    /\ pc[r] = "notion"
    /\ LET a == Head(todo[r])
           pageId == notionPages[a] + 1
       IN \E thrown \in faults :
            /\ thrown = "schema" => ~cachedSchema[r]
            /\ cachedSchema' = [cachedSchema EXCEPT ![r] = cachedSchema[r] \/ thrown # "schema"]
            /\ notionPages' = IF thrown \in {"schema", "create"} THEN notionPages
                              ELSE [notionPages EXCEPT ![a] = pageId]
            /\ notion_sync' = IF thrown \in {"schema", "create", "recordNotionSync"}
                              THEN notion_sync
                              ELSE recordNotionSync(notion_sync, a, pageId)
            /\ processing_log' =
                 IF thrown = "none"
                 THEN logProcessing(processing_log, a, "pushed", "success", runId[r])
                 ELSE logProcessing(processing_log, a, "pushed", "failed", runId[r])
            /\ pushResult' = [pushResult EXCEPT ![r] =
                                IF thrown = "none" THEN "pushed" ELSE "failed"]
    /\ NextArticle(r)
    /\ UNCHANGED <<articles, summaries, daily_briefings, runCount, runId, dryRun,
                   maxArticles, batch, clean, idem, baseline, qres, digestVars,
                   calendarVars, unitVars>>

\* Step 6: runDailyDigest
\* faulty variant: runDailyDigest without its deduplication check
briefingExistsNever(date) == FALSE

\* SELECT 1 FROM daily_briefings WHERE date = ?
briefingExists(date) == \E b \in daily_briefings : b.date = date

getTodaySyncedArticles == {a \in Items : isArticleSynced(a) /\ getSummary(a)}

\* what the text service does with the narrative request
TextOutcomes == {"noKey", "ok", "empty", "error"}

\* what the destination does with the briefing page
NotionOutcomes == {"notConfigured", "ok", "error"}

\* faulty variant: a failed narrative request yields the text used for an empty
\* response, which does not state the count
generateGlobalSummaryNoCount(outcome, count) ==
    CASE outcome = "noKey" -> [text |-> "template", count |-> count]
      [] outcome = "ok"    -> [text |-> "generated", count |-> 0]
      [] outcome = "empty" -> [text |-> "unavailable", count |-> 0]
      [] outcome = "error" -> [text |-> "unavailable", count |-> 0]

\* generateGlobalSummary / generateWeeklySummary / generateMonthlySummary: the
\* narrative, or a template that states the item count
generateGlobalSummary(outcome, count) ==
    CASE outcome = "noKey" -> [text |-> "template", count |-> count]
      [] outcome = "ok"    -> [text |-> "generated", count |-> 0]
      [] outcome = "empty" -> [text |-> "unavailable", count |-> 0]
      [] outcome = "error" -> [text |-> "errorTemplate", count |-> count]

\* the primary key column of the briefing table of each kind
KeyOf(kind, b) ==
    CASE kind = "day"   -> b.date
      [] kind = "week"  -> b.week_start
      [] kind = "month" -> b.year_month

\* INSERT ... ON CONFLICT(key) DO UPDATE, notion_page_id = COALESCE(new, old)
Upsert(kind, table, briefing) ==
    LET old == {b \in table : KeyOf(kind, b) = KeyOf(kind, briefing)}
        page == IF briefing.notion_page_id = 0 /\ old # {}
                THEN (CHOOSE b \in old : TRUE).notion_page_id
                ELSE briefing.notion_page_id
    IN (table \ old) \cup {[briefing EXCEPT !.notion_page_id = page]}

saveBriefing(briefings, briefing) == Upsert("day", briefings, briefing)

saveWeeklyBriefing(briefings, briefing) == Upsert("week", briefings, briefing)

saveMonthlyBriefing(briefings, briefing) == Upsert("month", briefings, briefing)

\* UPDATE <table> SET notion_page_id = ? WHERE <key> = ?
UpdateNotionId(kind, table, key, pageId) ==
    {IF KeyOf(kind, b) = key THEN [b EXCEPT !.notion_page_id = pageId] ELSE b :
        b \in table}

updateBriefingNotionId(briefings, date, pageId) ==
    UpdateNotionId("day", briefings, date, pageId)

\* the whole digest step of one pipeline run
runDailyDigest(r, textOutcomes, notionOutcomes) ==
    /\ pc[r] = "digest"
    /\ IF ~dryRun[r] /\ ~briefingExists("today") /\ getTodaySyncedArticles # {}
       THEN \E text \in textOutcomes, page \in notionOutcomes :
              LET count == Cardinality(getTodaySyncedArticles)
                  saved == saveBriefing(daily_briefings,
                               [date |-> "today", article_count |-> count,
                                global_summary |-> generateGlobalSummary(text, count),
                                notion_page_id |-> 0])
              IN daily_briefings' =
                     IF page = "ok" THEN updateBriefingNotionId(saved, "today", 1)
                     ELSE saved
       ELSE UNCHANGED daily_briefings
    /\ pc' = [pc EXCEPT ![r] = "done"]
    /\ UNCHANGED <<articles, processing_log, summaries, notion_sync, notionPages,
                   runCount, runId, dryRun, maxArticles, todo, batch, cachedSchema,
                   pushResult, clean, idem, baseline, qres, digestVars,
                   calendarVars, unitVars>>

\* one step of runPipeline as started from the CLI: any option combination
runPipeline(r) ==
    \/ StartRun(r, BOOLEAN, MaxArticlesChoices)
    \/ SkipScrape(r)
    \/ Scrape(r, Items, {"empty", "full"})
    \/ SkipContent(r)
    \/ ContentBegin(r)
    \/ Extract(r)
    \/ SkipFilter(r)
    \/ FilterBegin(r)
    \/ FilterLog(r)
    \/ SkipSummarize(r)
    \/ SummarizeBegin(r)
    \/ summarizeAndSave(r)
    \/ SkipPush(r)
    \/ NotionUnavailable(r)
    \/ PushBegin(r)
    \/ pushArticleToNotion(r)
    \/ pushToNotion(r, PushOutcomes)
    \/ runDailyDigest(r, {"ok", "error"}, {"ok", "error"})

\* pipeline runs one after the other (one scheduler process, one run at a time)
Next == runPipeline(1)

Spec == Init /\ [][Next]_vars

\* two pipeline processes started by overlapping cron triggers (default options,
\* all keys configured) on the same store, interleaved at their await points;
\* store writes succeed, the external services may fail
ServiceFaults == {"schema", "create", "none"}

\* the feed items on offer while the two runs overlap; the feed carries their body
OverlapItems == {1}

runScheduled(r) ==
    \/ StartRun(r, {FALSE}, {DefaultMaxArticles})
    \/ Scrape(r, OverlapItems, {"full"})
    \/ ContentBegin(r)
    \/ FilterBegin(r)
    \/ FilterLog(r)
    \/ SummarizeBegin(r)
    \/ summarizeAndSave(r)
    \/ PushBegin(r)
    \/ pushArticleToNotion(r)
    \/ pushToNotion(r, ServiceFaults)
    \/ runDailyDigest(r, {"ok"}, {"ok"})

NextOverlap == \E r \in Runs : runScheduled(r)

SpecOverlap == Init /\ [][NextOverlap]_vars

\* ------------------------------------------------- digest/ (day, week, month)
\* the digest entry points runDailyDigest, runWeeklyDigest and runMonthlyDigest
\* called on their own, one call at a time, for a fixed current instant
SyncedChoices == {0, 1, ContextLimit + 1}

\* the key of the period a call digests: the current day, the previous full week,
\* the previous month
PeriodKey(kind) ==
    CASE kind = "day"   -> "today"
      [] kind = "week"  -> "previous-week"
      [] kind = "month" -> "previous-month"

Table(kind) ==
    CASE kind = "day"   -> daily_briefings
      [] kind = "week"  -> weekly_briefings
      [] kind = "month" -> monthly_briefings

SetTable(kind, table) ==
    /\ daily_briefings' = IF kind = "day" THEN table ELSE daily_briefings
    /\ weekly_briefings' = IF kind = "week" THEN table ELSE weekly_briefings
    /\ monthly_briefings' = IF kind = "month" THEN table ELSE monthly_briefings

NewBriefing(kind, key, count, summary) ==
    CASE kind = "day" ->
           [date |-> key, article_count |-> count, global_summary |-> summary,
            notion_page_id |-> 0]
      [] kind = "week" ->
           [week_start |-> key, article_count |-> count, global_summary |-> summary,
            notion_page_id |-> 0]
      [] kind = "month" ->
           [year_month |-> key, article_count |-> count, global_summary |-> summary,
            notion_page_id |-> 0]

\* faulty variant: no deduplication check
DigestExistsNever(kind, key) == FALSE

\* faulty variant: a briefing without remote page does not count as existing
DigestExistsPublished(kind, key) ==
    \E b \in Table(kind) : KeyOf(kind, b) = key /\ b.notion_page_id # 0

\* briefingExists / weeklyBriefingExists / monthlyBriefingExists
DigestExists(kind, key) == \E b \in Table(kind) : KeyOf(kind, b) = key

\* faulty variant: a digest is generated for a period without items
DigestIsNullNever(count) == FALSE

\* generate*Digest returns null: articlesWithSummaries.length === 0
DigestIsNull(count) == count = 0

\* the items the narrative context is built from: generateMonthlyDigest takes
\* slice(0, 100), generateDailyDigest and generateWeeklyDigest take them all
ContextSize(kind, count) ==
    IF kind = "month" THEN Min(count, ContextLimit) ELSE count

\* an item is published today (a pipeline run between two digest calls)
SyncToday ==
    /\ dcall.pc \in {"idle", "returned"}
    /\ synced["day"] < MaxToday
    /\ synced' = [synced EXCEPT !["day"] = @ + 1]
    /\ UNCHANGED <<storeVars, runVars, qres, weekly_briefings, monthly_briefings,
                   dcall, calendarVars, unitVars>>

\* run*Digest: deduplication check, then generate*Digest fetches the period's items
DigestBegin(kind) ==
    /\ dcall.pc \in {"idle", "returned"}
    /\ LET existed == DigestExists(kind, PeriodKey(kind))
           count == IF existed THEN 0 ELSE synced[kind]
           returns == existed \/ DigestIsNull(count)
       IN dcall' = [NoCall EXCEPT !.kind = kind, !.existed = existed,
                                   !.count = count,
                                   !.pc = IF returns THEN "returned" ELSE "generate",
                                   !.success = returns]
    /\ UNCHANGED <<storeVars, runVars, qres, synced, weekly_briefings,
                   monthly_briefings, calendarVars, unitVars>>

\* generate*Digest: builds the context and asks for the narrative
GenerateSummary ==
    /\ dcall.pc = "generate"
    /\ \E outcome \in TextOutcomes :
         dcall' = [dcall EXCEPT
                     !.context = ContextSize(dcall.kind, dcall.count),
                     !.text = outcome,
                     !.textCalled = outcome # "noKey",
                     !.global_summary = generateGlobalSummary(outcome, dcall.count),
                     !.pc = "save"]
    /\ UNCHANGED <<storeVars, runVars, qres, synced, weekly_briefings,
                   monthly_briefings, calendarVars, unitVars>>

\* run*Digest: "Save briefing to database first"
SaveDigest ==
    /\ dcall.pc = "save"
    /\ SetTable(dcall.kind,
                Upsert(dcall.kind, Table(dcall.kind),
                       NewBriefing(dcall.kind, PeriodKey(dcall.kind), dcall.count,
                                   dcall.global_summary)))
    /\ dcall' = [dcall EXCEPT !.wrote = TRUE, !.pc = "publish"]
    /\ UNCHANGED <<articles, processing_log, summaries, notion_sync, notionPages,
                   runVars, qres, synced, calendarVars, unitVars>>

\* run*Digest: createNotion*BriefingPage, then update*BriefingNotionId
PublishDigest ==
    /\ dcall.pc = "publish"
    /\ \E outcome \in NotionOutcomes :
         /\ IF outcome = "ok"
            THEN SetTable(dcall.kind,
                          UpdateNotionId(dcall.kind, Table(dcall.kind),
                                         PeriodKey(dcall.kind), 1))
            ELSE UNCHANGED <<daily_briefings, weekly_briefings, monthly_briefings>>
         /\ dcall' = [dcall EXCEPT !.pageCreated = outcome = "ok",
                                   !.success = TRUE, !.pc = "returned"]
    /\ UNCHANGED <<articles, processing_log, summaries, notion_sync, notionPages,
                   runVars, qres, synced, calendarVars, unitVars>>

NextDigest ==
    \/ SyncToday
    \/ \E kind \in Kinds : DigestBegin(kind)
    \/ GenerateSummary
    \/ SaveDigest
    \/ PublishDigest

InitDigest ==
    /\ InitStore
    /\ synced \in [Kinds -> SyncedChoices]
    /\ clock = [now |-> 0, tz |-> 0]

SpecDigest == InitDigest /\ [][NextDigest]_vars

\* --------------------------------------------- digest/weekly-digest.ts dates
\* a Date is an instant in hours; hour 0 is a Monday, 00:00 UTC. The local time
\* zone is a fixed offset tz in hours (local time = UTC + tz)
TzOffsets == (0 - MaxTz)..MaxTz

\* day number of the local calendar date of an instant
LocalDate(date, tz) == (date + tz) \div 24

\* Date.prototype.getDay: 0 = Sunday, 1 = Monday, ...
getDay(date, tz) == (LocalDate(date, tz) + 1) % 7

\* the instant of local midnight of a local calendar day (setDate + setHours(0,0,0,0))
LocalMidnight(day, tz) == day * 24 - tz

\* toISOString().split('T')[0]: the UTC calendar date of an instant
toISODate(date) == date \div 24

getWeekStart(date, tz) ==
    LET day == getDay(date, tz)
        diff == LocalDate(date, tz) - day + (IF day = 0 THEN 0 - 6 ELSE 1)
    IN LocalMidnight(diff, tz)

getPreviousWeekStart(now, tz) ==
    LET currentWeekStart == getWeekStart(now, tz)
    IN LocalMidnight(LocalDate(currentWeekStart, tz) - 7, tz)

\* time passes
Tick ==
    /\ clock.now < MaxNow
    /\ clock' = [clock EXCEPT !.now = @ + 1]
    /\ period_key' = NoKey
    /\ UNCHANGED <<storeVars, runVars, qres, digestVars, unitVars>>

\* runWeeklyDigest() without argument: weekStartStr
WeekStartStr ==
    /\ ~period_key.computed
    /\ period_key' = [computed |-> TRUE,
                      week_start |-> toISODate(getPreviousWeekStart(clock.now, clock.tz))]
    /\ UNCHANGED <<storeVars, runVars, qres, digestVars, clock, unitVars>>

NextCalendar == Tick \/ WeekStartStr

InitCalendar ==
    /\ InitStore
    /\ synced = [k \in Kinds |-> 0]
    /\ clock \in [now : {0}, tz : TzOffsets]

SpecCalendar == InitCalendar /\ [][NextCalendar]_vars

\* ------------------------------------------------- digest: previous month
\* a local calendar date is [year, month, day] with month 0 = January, as
\* Date.prototype.getMonth counts
IsLeap(year) == (year % 4 = 0 /\ year % 100 # 0) \/ year % 400 = 0

DaysInMonth(year, month) ==
    IF month = 1 THEN (IF IsLeap(year) THEN 29 ELSE 28)
    ELSE IF month \in {3, 5, 8, 10} THEN 30 ELSE 31

\* Date.prototype.setMonth(month) for month in -1..11: the day of the month is
\* kept, and a day past the end of the target month rolls over into the next
setMonth(date, month) ==
    LET y == IF month < 0 THEN date.year - 1 ELSE date.year
        m == IF month < 0 THEN month + 12 ELSE month
        len == DaysInMonth(y, m)
    IN IF date.day <= len THEN [year |-> y, month |-> m, day |-> date.day]
       ELSE IF m = 11 THEN [year |-> y + 1, month |-> 0, day |-> date.day - len]
       ELSE [year |-> y, month |-> m + 1, day |-> date.day - len]

\* getPreviousMonth: year and month number (1 = January) of the returned string
getPreviousMonth(date) ==
    LET d == setMonth(date, date.month - 1)
    IN [year |-> d.year, month |-> d.month + 1]

\* a day passes
NextDay ==
    /\ today.year < FirstDay.year + MaxYears
    /\ today' = IF today.day < DaysInMonth(today.year, today.month)
                   THEN [today EXCEPT !.day = @ + 1]
                ELSE IF today.month < 11
                   THEN [today EXCEPT !.month = @ + 1, !.day = 1]
                ELSE [year |-> today.year + 1, month |-> 0, day |-> 1]
    /\ target_month' = NoMonth
    /\ UNCHANGED <<storeVars, runVars, qres, digestVars, calendarVars, matchVars,
                   ingestVars, contentVars, procVars,
                   auxVars>>

\* runMonthlyDigest() without argument: targetMonth
TargetMonth ==
    /\ ~target_month.computed
    /\ target_month' = [computed |-> TRUE,
                        year |-> getPreviousMonth(today).year,
                        month |-> getPreviousMonth(today).month]
    /\ UNCHANGED <<storeVars, runVars, qres, digestVars, calendarVars, today,
                   matchVars, ingestVars, contentVars, procVars,
                   auxVars>>

NextMonth == NextDay \/ TargetMonth

SpecMonth == Init /\ [][NextMonth]_vars

\* ------------------------------------------- filter/test-filter.ts (matcher)
\* one keyword of each category of config/keywords.ts
TECH_KEYWORDS == [companies |-> {"NVIDIA"}, themes |-> {"IA"}, terms |-> {"tech"}]

Categories == DOMAIN TECH_KEYWORDS

Keywords == UNION {TECH_KEYWORDS[c] : c \in Categories}

\* scores, category weights and minScore are counted in halves, so that the
\* theme weight 1.5 is the integer 3
DEFAULT_FILTER_CONFIG ==
    [minScore |-> 4, titleWeight |-> 3, contentWeight |-> 1,
     companyWeight |-> 4, themeWeight |-> 3, termWeight |-> 2]

\* a configuration with a higher threshold (minScore 7)
StrictConfig == [DEFAULT_FILTER_CONFIG EXCEPT !.minScore = 14]

Configs == {DEFAULT_FILTER_CONFIG, StrictConfig}

\* a text is the set of keywords that occur in it; an article is a title and a
\* content
MatchArticles == [title : SUBSET Keywords, content : SUBSET Keywords]

\* faulty variant: a matcher whose answer depends on the calls made before, as a
\* regular expression kept between calls with a sticky position would
containsKeywordSticky(text, keyword) == keyword \in text /\ Len(mlog) % 2 = 0

containsKeyword(text, keyword) == keyword \in text

findMatches(text, keywords) == {k \in keywords : containsKeyword(text, k)}

categoryWeight(category, config) ==
    CASE category = "companies" -> config.companyWeight
      [] category = "themes"    -> config.themeWeight
      [] category = "terms"     -> config.termWeight

\* the contribution of one category to the score
CategoryScore(article, config, category) ==
    LET titleCategoryMatches == findMatches(article.title, TECH_KEYWORDS[category])
        contentCategoryMatches == findMatches(article.content, TECH_KEYWORDS[category])
    IN Cardinality(titleCategoryMatches) * config.titleWeight
           * categoryWeight(category, config)
       + Cardinality(contentCategoryMatches) * config.contentWeight
           * categoryWeight(category, config)

\* matchArticle with its full result
matchArticleResult(article, config) ==
    LET titleMatches ==
            UNION {findMatches(article.title, TECH_KEYWORDS[c]) : c \in Categories}
        contentMatches ==
            UNION {findMatches(article.content, TECH_KEYWORDS[c]) \
                       findMatches(article.title, TECH_KEYWORDS[c]) : c \in Categories}
        score == CategoryScore(article, config, "companies")
                 + CategoryScore(article, config, "themes")
                 + CategoryScore(article, config, "terms")
    IN [matched |-> score >= config.minScore,
        score |-> score,
        matchedKeywords |-> titleMatches \cup contentMatches,
        matchedCategories |->
            {c \in Categories :
                \/ findMatches(article.title, TECH_KEYWORDS[c]) # {}
                \/ findMatches(article.content, TECH_KEYWORDS[c]) \
                       findMatches(article.title, TECH_KEYWORDS[c]) # {}}]

\* one call of matchArticle on any article under any configuration
MatchCall ==
    /\ \E article \in MatchArticles, config \in Configs :
        mres' = [called |-> TRUE, article |-> article, config |-> config,
                 result |-> matchArticleResult(article, config)]
    /\ UNCHANGED <<storeVars, runVars, qres, digestVars, calendarVars, monthVars,
                   mlog, ingestVars, contentVars, procVars,
                   auxVars>>

NextMatch == MatchCall

SpecMatch == Init /\ [][NextMatch]_vars

\* the articles of the repeated calls: keywords in the title only, in title and
\* content, in the content only, in neither
RepeatArticles ==
    {[title |-> {"NVIDIA", "IA"}, content |-> {}],
     [title |-> {"NVIDIA"}, content |-> {"NVIDIA", "tech"}],
     [title |-> {}, content |-> {"IA"}],
     [title |-> {}, content |-> {}]}

\* a sequence of matchArticle calls; each call is recorded with its result
MatchAgain ==
    /\ Len(mlog) < MaxCalls
    /\ \E article \in RepeatArticles, config \in Configs :
        LET call == [called |-> TRUE, article |-> article, config |-> config,
                     result |-> matchArticleResult(article, config)]
        IN /\ mres' = call
           /\ mlog' = Append(mlog, call)
    /\ UNCHANGED <<storeVars, runVars, qres, digestVars, calendarVars, monthVars,
                   ingestVars, contentVars, procVars,
                   auxVars>>

NextRematch == MatchAgain

SpecRematch == Init /\ [][NextRematch]_vars

\* --------------------------------------- scraper: ingestion of feed items
\* a title is a sequence of characters; the feeds offer one headline in several
\* spellings, and a second headline
TitleChoices == {<<"n">>, <<" ", "N">>, <<"N", " ">>, <<"c">>}

PublishedAtChoices == {1, 2}

Urls == {"u1", "u2"}

\* the items a feed can offer
FeedItems == [title : TitleChoices, pubDate : PublishedAtChoices, link : Urls]

\* String.prototype.toLowerCase
toLowerCase(title) ==
    [k \in DOMAIN title |-> IF title[k] = "N" THEN "n"
                            ELSE IF title[k] = "C" THEN "c" ELSE title[k]]

\* String.prototype.trim
RECURSIVE trim(_)
trim(title) ==
    IF title = <<>> THEN title
    ELSE IF Head(title) = " " THEN trim(Tail(title))
    ELSE IF title[Len(title)] = " " THEN trim(SubSeq(title, 1, Len(title) - 1))
    ELSE title

\* faulty variant: the id is derived from the title as given
generateArticleIdRaw(title, publishedAt) ==
    [title |-> title, publishedAt |-> publishedAt]

\* generateArticleId: the hash of the normalized title and the date; the hash is
\* taken to be free of collisions, so the id is its input
generateArticleId(title, publishedAt) ==
    [title |-> toLowerCase(trim(title)), publishedAt |-> publishedAt]

articleExistsByUrl(rows, url) == \E row \in rows : row.url = url

\* INSERT INTO articles: id is the primary key and url is UNIQUE; a violated
\* constraint raises an error and stores nothing
insertArticleRow(rows, article) ==
    IF \E row \in rows : row.id = article.id
    THEN [rows |-> rows, error |-> "PRIMARY KEY"]
    ELSE IF \E row \in rows : row.url = article.url
    THEN [rows |-> rows, error |-> "UNIQUE url"]
    ELSE [rows |-> rows \cup {article}, error |-> "none"]

\* fetchFeed: the items whose link is not stored yet, as articles
RECURSIVE fetchFeed(_, _)
fetchFeed(rows, items) ==
    IF items = <<>> THEN <<>>
    ELSE LET item == Head(items)
         IN IF articleExistsByUrl(rows, item.link)
            THEN fetchFeed(rows, Tail(items))
            ELSE <<[id |-> generateArticleId(item.title, item.pubDate),
                    title |-> item.title,
                    url |-> item.link]>> \o fetchFeed(rows, Tail(items))

\* saveScrapedArticles: st is the store and the outcome so far
RECURSIVE saveScrapedArticles(_, _)
saveScrapedArticles(st, list) ==
    IF list = <<>> THEN st
    ELSE LET article == Head(list)
             r == insertArticleRow(st.rows, article)
         IN IF articleExistsByUrl(st.rows, article.url)
            THEN saveScrapedArticles(st, Tail(list))
            ELSE IF r.error = "none"
            THEN saveScrapedArticles(
                     [st EXCEPT !.rows = r.rows,
                                !.log = logProcessing(@, article.id, "scraped", "success", 0),
                                !.saved = @ + 1],
                     Tail(list))
            ELSE \* caught: 'Failed to save article'
                 saveScrapedArticles(
                     [st EXCEPT !.failed = @ \cup {[article |-> article, error |-> r.error]}],
                     Tail(list))

FeedBatches == UNION {[1..n -> FeedItems] : n \in 1..MaxBatch}

\* step 1 of runPipeline: fetch the feeds, then store the new articles
Ingest ==
    /\ \E items \in FeedBatches :
        LET list == fetchFeed(article_rows, items)
            st == saveScrapedArticles(
                      [rows |-> article_rows, log |-> processing_log,
                       saved |-> 0, failed |-> {}], list)
        IN /\ article_rows' = st.rows
           /\ processing_log' = st.log
           /\ ingest' = [called |-> TRUE, articles |-> list,
                         saved |-> st.saved, failed |-> st.failed]
    /\ UNCHANGED <<articles, summaries, notion_sync, daily_briefings, notionPages,
                   runVars, qres, digestVars, calendarVars, monthVars, matchVars,
                   contentVars, procVars,
                   auxVars>>

NextIngest == Ingest

SpecIngest == Init /\ [][NextIngest]_vars

\* ------------------------------- scraper/content-extractor.ts: article bodies
\* lengths of the bodies a feed snippet or a page can have: none, short, and two
\* different substantial texts
BodyLengths == {0, SubstantialLength \div 2, SubstantialLength + 50, 3 * SubstantialLength}

\* UPDATE articles SET content = ? WHERE id = ?
updateArticleContent(bodies, id, text) == [bodies EXCEPT ![id] = text]

\* saveScrapedArticles stores an item with the snippet of its feed entry
StoreArticle ==
    /\ \E i \in Items, snippet \in BodyLengths \ {3 * SubstantialLength} :
        /\ articles[i] = "absent"
        /\ articles' = [articles EXCEPT ![i] = IF snippet = 0 THEN "empty" ELSE "full"]
        /\ content' = [content EXCEPT ![i] = snippet]
        /\ processing_log' = logProcessing(processing_log, i, "scraped", "success", 0)
    /\ UNCHANGED <<summaries, notion_sync, daily_briefings, notionPages, runVars, qres,
                   digestVars, calendarVars, monthVars, matchVars, ingestVars,
                   extractor, procVars,
                   auxVars>>

\* step 2 of runPipeline in process p: getArticlesWithEmptyContent, whose rows carry
\* the body as stored at this moment
ListEmptyContent(p) ==
    /\ extractor[p].pc = "idle"
    /\ runCount < MaxRuns
    /\ runCount' = runCount + 1
    /\ LET ids == getArticlesWithEmptyContent(DefaultMaxArticles)
       IN extractor' = [extractor EXCEPT ![p] =
              IF ids = <<>> THEN NoExtraction
              ELSE [pc |-> "extracting",
                    articles |-> [k \in DOMAIN ids |->
                                     [id |-> ids[k], content |-> content[ids[k]]]]]]
    /\ UNCHANGED <<storeVars, pc, runId, dryRun, maxArticles, todo, batch, cachedSchema,
                   pushResult, clean, idem, baseline, qres, digestVars, calendarVars,
                   monthVars, matchVars, ingestVars, content, procVars,
                   auxVars>>

\* one iteration of the extractArticleContents loop in process p
ExtractContent(p) ==
    /\ extractor[p].pc = "extracting"
    /\ LET article == Head(extractor[p].articles)
           rest == Tail(extractor[p].articles)
       IN /\ extractor' = [extractor EXCEPT ![p] =
                 IF rest = <<>> THEN NoExtraction ELSE [@ EXCEPT !.articles = rest]]
          /\ IF article.content > SubstantialLength
             THEN UNCHANGED <<articles, content, processing_log>>
             ELSE \E page \in BodyLengths :
                    \* fetchArticleContent returns the text only if it is substantial
                    IF page > SubstantialLength
                    THEN /\ content' = updateArticleContent(content, article.id, page)
                         /\ articles' = [articles EXCEPT ![article.id] = "full"]
                         /\ processing_log' = logProcessing(processing_log, article.id,
                                                            "scraped", "success", p)
                    ELSE /\ processing_log' = logProcessing(processing_log, article.id,
                                                            "scraped", "failed", p)
                         /\ UNCHANGED <<articles, content>>
    /\ UNCHANGED <<summaries, notion_sync, daily_briefings, notionPages, runVars, qres,
                   digestVars, calendarVars, monthVars, matchVars, ingestVars,
                   procVars,
                   auxVars>>

NextContent ==
    \/ StoreArticle
    \/ \E p \in Runs : ListEmptyContent(p) \/ ExtractContent(p)

SpecContent == Init /\ [][NextContent]_vars

\* ----------------------------------------------------------- utils/retry.ts
DEFAULT_RETRY_CONFIG ==
    [maxAttempts |-> 3, initialDelayMs |-> 1000, maxDelayMs |-> 30000, factor |-> 2]

\* the ways an attempt of fn can fail
FnErrors == {"timeout", "rate limit", "server error"}

\* faulty variant: the attempts are exhausted only once the cap is passed
ExhaustedLate(attempt, maxAttempts) == attempt > maxAttempts

\* attempt === maxAttempts
Exhausted(attempt, maxAttempts) == attempt = maxAttempts

\* withRetry(fn, {maxAttempts}): the loop is entered with attempt = 1, or left at
\* once for maxAttempts = 0, where the final throw raises the undefined lastError
WithRetry ==
    /\ retry.pc \in {"idle", "returned", "thrown"}
    /\ \E maxAttempts \in 0..MaxAttempts :
        retry' = IF 1 <= maxAttempts
                 THEN [NoRetry EXCEPT !.pc = "calling", !.maxAttempts = maxAttempts,
                                      !.attempt = 1,
                                      !.delay = DEFAULT_RETRY_CONFIG.initialDelayMs]
                 ELSE [NoRetry EXCEPT !.pc = "thrown", !.thrown = "undefined"]
    /\ UNCHANGED <<storeVars, runVars, qres, digestVars, calendarVars, monthVars,
                   matchVars, ingestVars, contentVars, sched,
                   auxVars>>

\* return await fn(), and the catch block up to the sleep
CallFn ==
    /\ retry.pc = "calling"
    /\ \E outcome \in {"ok"} \cup FnErrors :
        retry' =
            IF outcome = "ok"
            THEN [retry EXCEPT !.pc = "returned", !.result = retry.attempt,
                               !.outcomes = Append(@, outcome)]
            ELSE IF Exhausted(retry.attempt, retry.maxAttempts)
            THEN [retry EXCEPT !.pc = "thrown", !.lastError = outcome,
                               !.thrown = outcome, !.outcomes = Append(@, outcome)]
            ELSE [retry EXCEPT !.pc = "sleeping", !.lastError = outcome,
                               !.outcomes = Append(@, outcome)]
    /\ UNCHANGED <<storeVars, runVars, qres, digestVars, calendarVars, monthVars,
                   matchVars, ingestVars, contentVars, sched,
                   auxVars>>

\* await sleep(delay), the next delay, attempt++ and the loop test; the throw after
\* the loop raises lastError
Sleep ==
    /\ retry.pc = "sleeping"
    /\ retry' = [retry EXCEPT
           !.sleeps = @ + 1,
           !.waits = Append(@, retry.delay),
           !.delay = Min(@ * DEFAULT_RETRY_CONFIG.factor, DEFAULT_RETRY_CONFIG.maxDelayMs),
           !.attempt = @ + 1,
           !.pc = IF retry.attempt + 1 <= retry.maxAttempts THEN "calling" ELSE "thrown",
           !.thrown = IF retry.attempt + 1 <= retry.maxAttempts THEN @
                      ELSE retry.lastError]
    /\ UNCHANGED <<storeVars, runVars, qres, digestVars, calendarVars, monthVars,
                   matchVars, ingestVars, contentVars, sched,
                   auxVars>>

NextRetry == WithRetry \/ CallFn \/ Sleep

\* fn settles and the timer fires
SpecRetry == Init /\ [][NextRetry]_vars /\ WF_vars(CallFn) /\ WF_vars(Sleep)

\* -------------------------------------------------------------- scheduler.ts
\* faulty variant: the trigger does not look at the flag
IsRunningNever(s) == FALSE

\* if (isRunning)
IsRunning(s) == s.isRunning

InProgress(r) == pc[r] \notin {"idle", "done"}

\* the cron callback: executePipeline up to the call of runPipeline. A trigger that
\* finds the flag set logs a warning and returns
executePipeline ==
    /\ IF IsRunning(sched)
       THEN /\ sched.skipped < MaxSkipped
            /\ sched' = [sched EXCEPT !.skipped = @ + 1]
       ELSE /\ runCount < MaxRuns
            /\ sched' = [sched EXCEPT !.isRunning = TRUE, !.base = runCount]
    /\ UNCHANGED <<storeVars, runVars, qres, digestVars, calendarVars, monthVars,
                   matchVars, ingestVars, contentVars, retry,
                   auxVars>>

\* runPipeline({maxArticles: 30}) as called by executePipeline, in a free slot
ScheduledStart(r) ==
    /\ sched.isRunning
    /\ runCount = sched.base
    /\ StartRun(r, {FALSE}, {ScheduledMaxArticles})

\* faulty variant: the flag is cleared at the end of the try block only, so a
\* run that threw leaves it set
ReleaseOnReturn ==
    /\ sched.isRunning
    /\ runCount > sched.base
    /\ \A r \in Runs : ~InProgress(r)
    /\ \A r \in Runs : runId[r] = sched.base + 1 => clean[r]
    /\ sched' = [sched EXCEPT !.isRunning = FALSE]
    /\ UNCHANGED <<storeVars, runVars, qres, digestVars, calendarVars, monthVars,
                   matchVars, ingestVars, contentVars, retry,
                   auxVars>>

\* the run returned or threw: the finally block clears the flag
Finally ==
    /\ sched.isRunning
    /\ runCount > sched.base
    /\ \A r \in Runs : ~InProgress(r)
    /\ sched' = [sched EXCEPT !.isRunning = FALSE]
    /\ UNCHANGED <<storeVars, runVars, qres, digestVars, calendarVars, monthVars,
                   matchVars, ingestVars, contentVars, retry,
                   auxVars>>

\* one step of a run started by the scheduler
runTriggered(r) ==
    \/ ScheduledStart(r)
    \/ Scrape(r, Items, {"empty", "full"})
    \/ ContentBegin(r)
    \/ Extract(r)
    \/ FilterBegin(r)
    \/ FilterLog(r)
    \/ SummarizeBegin(r)
    \/ summarizeAndSave(r)
    \/ PushBegin(r)
    \/ pushArticleToNotion(r)
    \/ pushToNotion(r, ServiceFaults)
    \/ runDailyDigest(r, {"ok"}, {"ok"})

NextScheduler ==
    \/ executePipeline
    \/ Finally
    \/ \E r \in Runs : runTriggered(r)

SpecScheduler == Init /\ [][NextScheduler]_vars

\* arbitrary ledger histories: any article insert, any logProcessing call, and
\* the eligibility query applied to the result
insertArticle(a) ==
    /\ articles[a] = "absent"
    /\ articles' = [articles EXCEPT ![a] = "full"]
    /\ qres' = <<>>
    /\ UNCHANGED <<processing_log, summaries, notion_sync, daily_briefings,
                   notionPages, runVars,
                   digestVars, calendarVars, unitVars>>

LedgerAppend ==
    /\ Len(processing_log) < MaxLedger
    /\ \E a \in Items, stage \in StageSet, status \in Statuses :
        /\ articles[a] # "absent"
        /\ processing_log' = logProcessing(processing_log, a, stage, status, 0)
    /\ qres' = <<>>
    /\ UNCHANGED <<articles, summaries, notion_sync, daily_briefings, notionPages,
                   runVars,
                   digestVars, calendarVars, unitVars>>

LedgerQuery ==
    /\ qres = <<>>
    /\ qres' = [k \in DOMAIN Stages |-> getArticlesNeedingProcessing(Stages[k])]
    /\ UNCHANGED <<storeVars, runVars,
                   digestVars, calendarVars, unitVars>>

NextLedger == (\E a \in Items : insertArticle(a)) \/ LedgerAppend \/ LedgerQuery

SpecLedger == Init /\ [][NextLedger]_vars

\* the process is killed (SIGKILL, power loss): nothing after the last completed
\* store write runs, neither the catch blocks nor the remaining stages
Terminated(r) ==
    /\ pc' = [pc EXCEPT ![r] = "done"]
    /\ todo' = [todo EXCEPT ![r] = <<>>]
    /\ batch' = [batch EXCEPT ![r] = <<>>]
    /\ clean' = [clean EXCEPT ![r] = FALSE]
    /\ idem' = [idem EXCEPT ![r] = FALSE]
    /\ UNCHANGED <<runCount, runId, dryRun, maxArticles, cachedSchema, pushResult,
                   baseline, qres, digestVars,
                   calendarVars, unitVars>>

\* killed between two steps of runPipeline
Crash(r) ==
    /\ pc[r] \notin {"idle", "done"}
    /\ Terminated(r)
    /\ UNCHANGED storeVars

\* killed inside summarizeAndSave, after upsertSummary and before logProcessing
CrashInSummarize(r) ==
    /\ pc[r] = "summarizing"
    /\ \E k \in DOMAIN batch[r] : summaries' = summaries \cup {batch[r][k]}
    /\ Terminated(r)
    /\ UNCHANGED <<articles, processing_log, notion_sync, daily_briefings, notionPages>>

\* killed inside pushToNotion: after pages.create returned ("created"), or after
\* recordNotionSync and before logProcessing ("synced")
CrashPoints == {"created", "synced"}

CrashInPush(r) ==
    /\ pc[r] = "notion"
    /\ LET a == Head(todo[r])
           pageId == notionPages[a] + 1
       IN \E point \in CrashPoints :
            /\ notionPages' = [notionPages EXCEPT ![a] = pageId]
            /\ notion_sync' = IF point = "synced"
                              THEN recordNotionSync(notion_sync, a, pageId)
                              ELSE notion_sync
    /\ Terminated(r)
    /\ UNCHANGED <<articles, processing_log, summaries, daily_briefings>>

\* scheduled runs one after the other, the Notion calls succeeding, killed at any point
runCrashing(r) ==
    \/ StartRun(r, {FALSE}, {DefaultMaxArticles})
    \/ Scrape(r, Items, {"full"})
    \/ ContentBegin(r)
    \/ FilterBegin(r)
    \/ FilterLog(r)
    \/ SummarizeBegin(r)
    \/ summarizeAndSave(r)
    \/ PushBegin(r)
    \/ pushArticleToNotion(r)
    \/ pushToNotion(r, {"none"})
    \/ runDailyDigest(r, {"ok"}, {"ok"})
    \/ Crash(r)
    \/ CrashInSummarize(r)
    \/ CrashInPush(r)

NextCrash == runCrashing(1)

SpecCrash == Init /\ [][NextCrash]_vars

\* ------------------------------------------------------------------ claims
SuccessCount(a, stage) == JoinCount(a, stage, "success")

\* a row written by a run before run r
EarlierRow(r, a, stage, statuses) ==
    \E n \in DOMAIN processing_log :
        /\ processing_log[n].article_id = a
        /\ processing_log[n].stage = stage
        /\ processing_log[n].status \in statuses
        /\ processing_log[n].run < runId[r]

\* C1: every (item, stage) pair has at most one StageEvent with outcome success
C1_OneSuccessPerStage ==
    \A a \in Items, stage \in StageSet : SuccessCount(a, stage) <= 1

HasAnyRow(a) == \E n \in DOMAIN processing_log : processing_log[n].article_id = a

\* C2: getArticlesNeedingProcessing(N) contains an item iff the item has a success
\* event at stage N-1 and no event at all at stage N; for the first stage it
\* contains exactly the stored items without any ledger row
C2_EligibleIff ==
    qres # <<>> =>
        \A k \in DOMAIN Stages : \A a \in Items :
            a \in Range(qres[k]) <=>
                /\ articles[a] # "absent"
                /\ IF k = 1 THEN ~HasAnyRow(a)
                   ELSE /\ \E n \in DOMAIN processing_log :
                              processing_log[n] = Row(a, Stages[k - 1], "success", 0)
                        /\ ~\E n \in DOMAIN processing_log :
                              /\ processing_log[n].article_id = a
                              /\ processing_log[n].stage = Stages[k]

\* C2 witness: a query over a history where one item is eligible for summarization
\* and another is excluded by a failed summarization event
C2_Witness ==
    /\ qres # <<>>
    /\ \E a, b \in Items :
        /\ a \in Range(qres[3])
        /\ b \notin Range(qres[3])
        /\ HasRow(b, "filtered", "success")
        /\ HasRow(b, "summarized", "failed")

\* the list a stage of run r is working through
StageList(r) == batch[r] \o todo[r]

\* C3: the list handed to filter, summarize or publish in one run contains each
\* item at most once
C3_NoItemTwiceInStage ==
    \A r \in Runs :
        /\ pc[r] \in {"filtering", "pushing", "notion"} => NoDup(todo[r])
        /\ pc[r] = "summarizing" => NoDup(StageList(r))

\* C4: a run that immediately repeats a completed full run with the same options
\* and no new source data adds no success row, no SyncRecord and no DigestRecord
C4_SecondRunAddsNothing ==
    \A r \in Runs :
        (pc[r] = "done" /\ idem[r]) =>
            /\ ~\E n \in DOMAIN processing_log :
                  /\ processing_log[n].run = runId[r]
                  /\ processing_log[n].status = "success"
            /\ notion_sync = baseline[r].sync
            /\ daily_briefings = baseline[r].briefings

\* C4 as amended: the repeat run redoes no completed work: it adds no success row
\* for an (item, stage) that had one, replaces no SyncRecord and no DigestRecord
C4_SecondRunRepeatsNothing ==
    \A r \in Runs :
        idem[r] =>
            /\ \A n \in DOMAIN processing_log :
                  (processing_log[n].run = runId[r] /\ processing_log[n].status = "success")
                  => ~EarlierRow(r, processing_log[n].article_id,
                                 processing_log[n].stage, {"success"})
            /\ baseline[r].sync \subseteq notion_sync
            /\ baseline[r].briefings \subseteq daily_briefings
            /\ \A a \in Items : Cardinality({s \in notion_sync : s.article_id = a}) <= 1
            /\ Cardinality(daily_briefings) <= 1

\* C4 witness: a finished repeat run that summarized and published an item which
\* the first run had left unfinished, beside an item the first run published
C4_Witness ==
    \E r \in Runs :
        /\ pc[r] = "done" /\ idem[r]
        /\ baseline[r].sync # {}
        /\ notion_sync # baseline[r].sync
        /\ \E n \in DOMAIN processing_log :
              /\ processing_log[n].run = runId[r]
              /\ processing_log[n].stage = "pushed"
              /\ processing_log[n].status = "success"

\* C5: under overlapping runs the destination creates at most one page per item
\* and at most one SyncRecord exists per item
C5_PublishedAtMostOnce ==
    \A a \in Items :
        /\ notionPages[a] <= 1
        /\ Cardinality({s \in notion_sync : s.article_id = a}) <= 1

\* C6: an item whose publication ended with (pushed, failed) in an earlier run is
\* not handed to pushToNotion again by a later run
C6_FailedPushNotRetried ==
    \A r \in Runs :
        pc[r] = "notion" => ~EarlierRow(r, Head(todo[r]), "pushed", {"failed"})

StageIndex(stage) == CHOOSE k \in DOMAIN Stages : Stages[k] = stage

\* C7: an item with a failed or skipped event at filter or summarize is not handed
\* to that stage by a later run and gets no event at a later stage
C7_ParkedStaysParked ==
    /\ \A r \in Runs :
        /\ pc[r] = "filtering" =>
             \A a \in Range(todo[r]) : ~EarlierRow(r, a, "filtered", {"failed", "skipped"})
        /\ pc[r] = "summarizing" =>
             \A a \in Range(StageList(r)) :
                 ~EarlierRow(r, a, "summarized", {"failed", "skipped"})
    /\ \A n, m \in DOMAIN processing_log :
        (/\ n < m
         /\ processing_log[n].article_id = processing_log[m].article_id
         /\ processing_log[n].stage \in {"filtered", "summarized"}
         /\ processing_log[n].status \in {"failed", "skipped"})
        => StageIndex(processing_log[m].stage) <= StageIndex(processing_log[n].stage)

PcRank(p) ==
    CASE p \in {"idle", "scrape"} -> 0
      [] p \in {"content", "extract"} -> 1
      [] p \in {"filter", "filtering"} -> 2
      [] p \in {"summarize", "summarizing"} -> 3
      [] p \in {"push", "pushing", "notion"} -> 4
      [] p = "digest" -> 5
      [] p = "done" -> 6

\* C8: an item is handed to the summarizer only after its (filtered, success) event
\* and to the publisher only after its (summarized, success) event is recorded, and
\* within one run the stages run in the order filter, summarize, publish
C8_StageOrder ==
    /\ [](\A r \in Runs :
            /\ pc[r] = "summarizing" =>
                 \A a \in Range(StageList(r)) : HasRow(a, "filtered", "success")
            /\ pc[r] \in {"pushing", "notion"} =>
                 \A a \in Range(todo[r]) : HasRow(a, "summarized", "success"))
    /\ [][\A r \in Runs :
            runId'[r] = runId[r] => PcRank(pc'[r]) >= PcRank(pc[r])]_vars

\* C8 witness: an item that went through filter and summarize is with the publisher
C8_Witness ==
    \E r \in Runs :
        /\ pc[r] = "notion"
        /\ HasRow(Head(todo[r]), "filtered", "success")
        /\ HasRow(Head(todo[r]), "summarized", "success")

\* C9: pushArticleToNotion on an item that has a SyncRecord returns skipped and
\* leaves the ledger, the sync table and the destination untouched
C9_SyncedIsSkipped ==
    [][\A r \in Runs :
         (/\ pc[r] = "pushing"
          /\ Head(todo[r]) \in SyncedIds
          /\ <<pc[r], todo[r]>>' # <<pc[r], todo[r]>>)
         => /\ pushResult'[r] = "skipped"
            /\ UNCHANGED storeVars]_vars

\* C9 witness: a pushArticleToNotion call has returned skipped
C9_Witness ==
    \E r \in Runs : pushResult[r] = "skipped" /\ SyncedIds # {}

\* C10: a publication attempt that records (pushed, failed) leaves no SyncRecord
C10_FailedPushLeavesNoSync ==
    \A a \in Items :
        (/\ processing_log # <<>>
         /\ processing_log[Len(processing_log)].article_id = a
         /\ processing_log[Len(processing_log)].stage = "pushed"
         /\ processing_log[Len(processing_log)].status = "failed")
        => a \notin SyncedIds

\* no run is in progress: every run has completed or was terminated
Quiescent == \A r \in Runs : pc[r] \in {"idle", "done"}

\* C11: an item whose remote page exists when a run is killed is not published
\* again by a later run, and an item a killed run left with a SyncRecord is counted
\* in the day's digest once a later run completes
C11_CrashAfterPublish ==
    /\ \A r \in Runs : pc[r] = "notion" => notionPages[Head(todo[r])] = 0
    /\ \A r \in Runs : \A a \in Items :
          (/\ pc[r] = "done" /\ clean[r]
           /\ a \in getTodaySyncedArticles
           /\ ~HasEvent(a, "pushed"))
          => \E b \in daily_briefings :
                b.article_count = Cardinality(getTodaySyncedArticles)

\* C11 witness: a run was killed after the remote page of an item was created and
\* before its SyncRecord was written
C11_Witness ==
    \E a \in Items :
        /\ Quiescent
        /\ notionPages[a] = 1
        /\ a \notin SyncedIds
        /\ ~HasEvent(a, "pushed")

\* C12: with no run in progress an item has a (summarized, success) event only if
\* it has a Summary row, and a (pushed, success) event iff it has a SyncRecord
C12_NoHalfAdvancedItem ==
    Quiescent =>
        \A a \in Items :
            /\ HasRow(a, "summarized", "success") => getSummary(a)
            /\ HasRow(a, "pushed", "success") <=> isArticleSynced(a)

\* C14: a run whose body extraction cannot start goes on to the following stages:
\* a run at step 2 moves to the extraction loop or to step 3, never to its end
C14_StageFailureContinues ==
    [][\A r \in Runs :
         (pc[r] = "content" /\ runId'[r] = runId[r])
         => pc'[r] \in {"content", "extract", "filter"}]_vars

HasRecord(kind) == \E b \in Table(kind) : KeyOf(kind, b) = PeriodKey(kind)

TablesUnchanged == UNCHANGED <<daily_briefings, weekly_briefings, monthly_briefings>>

\* the step is the start of a digest call of this kind
Begins(kind) ==
    /\ dcall.pc \in {"idle", "returned"}
    /\ dcall' # dcall
    /\ dcall'.kind = kind

C16_RecordBeforePublication ==
    /\ [](dcall.pc = "publish" =>
            \E b \in Table(dcall.kind) :
                /\ KeyOf(dcall.kind, b) = PeriodKey(dcall.kind)
                /\ b.article_count = dcall.count
                /\ b.global_summary = dcall.global_summary)
    /\ [][\A kind \in Kinds :
            /\ \A b \in Table(kind) : \E c \in Table(kind)' :
                  /\ KeyOf(kind, c) = KeyOf(kind, b)
                  /\ c.article_count = b.article_count
                  /\ c.global_summary = b.global_summary
            /\ (HasRecord(kind) /\ dcall'.kind = kind /\ ~dcall.textCalled)
               => ~dcall'.textCalled]_vars

\* C16 witness: a later call returned at once for a key whose record has no remote
\* page, because its publication had failed
C16_Witness ==
    /\ dcall.pc = "returned" /\ dcall.existed
    /\ \E b \in Table(dcall.kind) : b.notion_page_id = 0

\* C17: a digest call for a period without published items returns success and
\* writes no DigestRecord, calls neither the text service nor the destination
C17_EmptyPeriodNoOp ==
    [][\A kind \in Kinds :
         (~HasRecord(kind) /\ synced[kind] = 0 /\ Begins(kind))
         => /\ dcall'.pc = "returned" /\ dcall'.success
            /\ ~dcall'.textCalled /\ ~dcall'.pageCreated /\ ~dcall'.wrote
            /\ TablesUnchanged]_vars

\* C17 witness: a call returned for a period without items and without record
C17_Witness ==
    /\ dcall.pc = "returned" /\ ~dcall.existed /\ dcall.success
    /\ synced[dcall.kind] = 0
    /\ Table(dcall.kind) = {}

\* C18: when the narrative request fails the digest call goes on with a template
\* that states the item count, stores the DigestRecord with it and returns success
C18_NarrativeFallback ==
    (dcall.text = "error") =>
        /\ dcall.pc \in {"save", "publish", "returned"}
        /\ dcall.global_summary = [text |-> "errorTemplate", count |-> dcall.count]
        /\ dcall.pc \in {"publish", "returned"} =>
              \E b \in Table(dcall.kind) :
                  /\ KeyOf(dcall.kind, b) = PeriodKey(dcall.kind)
                  /\ b.article_count = dcall.count
                  /\ b.global_summary.text = "errorTemplate"
                  /\ b.global_summary.count = b.article_count
        /\ dcall.pc = "returned" => dcall.success

\* C18 witness: a call whose narrative request failed has returned
C18_Witness ==
    /\ dcall.pc = "returned" /\ dcall.text = "error" /\ dcall.success
    /\ dcall.count > 1

\* C19: the context sent to the text service is built from at most ContextLimit
\* items, for every kind of digest
C19_ContextBounded ==
    dcall.textCalled => dcall.context <= ContextLimit

\* the Monday that starts the previous full ISO week of the local calendar date
PreviousMonday(now, tz) == (LocalDate(now, tz) \div 7) * 7 - 7

\* C20: the week key computed without argument is the date of the Monday that
\* starts the previous full ISO week
C20_WeekKeyIsPreviousMonday ==
    period_key.computed =>
        period_key.week_start = PreviousMonday(clock.now, clock.tz)

\* the calendar month before the month of a date, month 1 = January
MonthBefore(date) ==
    IF date.month = 0 THEN [year |-> date.year - 1, month |-> 12]
    ELSE [year |-> date.year, month |-> date.month]

\* C21: on every day of every month the month key computed without argument is
\* the calendar month immediately before the current month
C21_PreviousMonthKey ==
    target_month.computed =>
        /\ target_month.year = MonthBefore(today).year
        /\ target_month.month = MonthBefore(today).month

\* C21 witness: the key computed on the last day of a 31-day month that follows
\* a shorter month
C21_Witness ==
    /\ target_month.computed
    /\ today.day = 31 /\ today.month = 2

\* the weight of the category a keyword belongs to
KeywordWeight(k, config) ==
    categoryWeight(CHOOSE c \in Categories : k \in TECH_KEYWORDS[c], config)

RECURSIVE SumOver(_, _, _)
SumOver(keywords, article, config) ==
    IF keywords = {} THEN 0
    ELSE LET k == CHOOSE x \in keywords : TRUE
         IN (IF k \in article.title THEN config.titleWeight ELSE config.contentWeight)
                * KeywordWeight(k, config)
            + SumOver(keywords \ {k}, article, config)

\* the score the scoring rule gives: each distinct matched keyword counts once,
\* with the title weight if it occurs in the title and the content weight if not
ExpectedScore(article, config) ==
    SumOver(article.title \cup article.content, article, config)

\* C22: the score is the sum over the distinct matched keywords of location
\* weight x category weight, a keyword of the title counting once whether or not
\* it is in the content too, and matched is true iff score >= minScore
C22_ScoreIsWeightedSum ==
    mres.called =>
        /\ mres.result.score = ExpectedScore(mres.article, mres.config)
        /\ mres.result.matched <=>
               ExpectedScore(mres.article, mres.config) >= mres.config.minScore

\* C22 witness: a call on an article with a keyword in the title and in the content
C22_Witness ==
    /\ mres.called
    /\ mres.article.title \cap mres.article.content # {}

C24_LedgerAppendOnly ==
    [][\A n \in DOMAIN processing_log :
          /\ n \in DOMAIN processing_log'
          /\ processing_log'[n] = processing_log[n]]_vars

\* C24 witness: a second run has finished and logged an event for an item and
\* stage that already had an event from the first run
C24_Witness ==
    /\ runCount = 2 /\ Quiescent
    /\ \E i, j \in DOMAIN processing_log :
          /\ i < j
          /\ processing_log[i].run = 1 /\ processing_log[j].run = 2
          /\ processing_log[i].article_id = processing_log[j].article_id
          /\ processing_log[i].stage = processing_log[j].stage

\* two characters are the same letter in either case
SameLetter(x, y) == x = y \/ {x, y} = {"n", "N"} \/ {x, y} = {"c", "C"}

Blank(title, from, to) == \A k \in from..to : title[k] = " "

\* the titles differ only in letter case or surrounding whitespace: they have
\* cores of the same letters, and nothing but blanks around the cores
SameHeadline(t, u) ==
    \E i \in 1..(Len(t) + 1), j \in 1..(Len(u) + 1) :
    \E n \in 0..Len(t) :
        /\ i + n - 1 <= Len(t) /\ j + n - 1 <= Len(u)
        /\ \A k \in 0..(n - 1) : SameLetter(t[i + k], u[j + k]) /\ t[i + k] # " "
        /\ Blank(t, 1, i - 1) /\ Blank(t, i + n, Len(t))
        /\ Blank(u, 1, j - 1) /\ Blank(u, j + n, Len(u))

ScrapedEvents(id) ==
    Cardinality({n \in DOMAIN processing_log :
        processing_log[n].article_id = id /\ processing_log[n].stage = "scraped"})

\* C25: an article whose url is already stored, from an earlier call or from
\* earlier in the same call, adds no row and no event: no url is stored twice,
\* every row has exactly one scraped event, stored rows and events stay; and
\* articles whose titles differ only in case or surrounding whitespace, with the
\* same date, have the same id
C25_StoredUrlIsNoOp ==
    /\ [](/\ \A r1, r2 \in article_rows : r1.url = r2.url => r1 = r2
          /\ \A row \in article_rows : ScrapedEvents(row.id) = 1
          /\ Len(processing_log) = Cardinality(article_rows)
          /\ \A r1, r2 \in article_rows :
                (SameHeadline(r1.title, r2.title)
                    /\ r1.id.publishedAt = r2.id.publishedAt) => r1.id = r2.id
          /\ \A k1, k2 \in DOMAIN ingest.articles :
                LET a1 == ingest.articles[k1]
                    a2 == ingest.articles[k2]
                IN (SameHeadline(a1.title, a2.title)
                       /\ a1.id.publishedAt = a2.id.publishedAt) => a1.id = a2.id)
    /\ [][/\ article_rows \subseteq article_rows'
          /\ \A n \in DOMAIN processing_log :
                n \in DOMAIN processing_log' /\ processing_log'[n] = processing_log[n]
          /\ \A row \in article_rows' \ article_rows :
                ~articleExistsByUrl(article_rows, row.url)]_vars

\* C25 witness: a call offered two articles with one url and stored one of them,
\* and the titles of the call differ in case and whitespace only
C25_Witness ==
    /\ ingest.called /\ Len(ingest.articles) = 2 /\ ingest.saved = 1
    /\ ingest.articles[1].url = ingest.articles[2].url
    /\ ingest.articles[1].title # ingest.articles[2].title
    /\ ingest.articles[1].id = ingest.articles[2].id

\* C26: storing fails only for an article whose url is stored under another id; an
\* article whose id is already stored is a duplicate, not an error; and every
\* other article of the call is stored
C26_OnlyUrlConflictFails ==
    ingest.called =>
        /\ \A f \in ingest.failed : f.error = "UNIQUE url"
        /\ \A k \in DOMAIN ingest.articles :
              \/ articleExistsByUrl(article_rows, ingest.articles[k].url)
              \/ \E row \in article_rows : row.id = ingest.articles[k].id

\* C26 witness: a call with two articles of which one failed and the other was stored
C26_Witness ==
    /\ ingest.called /\ Len(ingest.articles) = 2
    /\ ingest.saved = 1 /\ ingest.failed # {}

\* C27: a body that is substantial (longer than SubstantialLength) when
\* updateArticleContent is called stays as it is; only an empty or short body is
\* replaced
C27_SubstantialBodyKept ==
    [][\A i \in Items : content[i] > SubstantialLength => content'[i] = content[i]]_vars

\* C27 witness: an empty body has been replaced by an extracted text
C27_Witness ==
    \E i \in Items :
        /\ content[i] > SubstantialLength
        /\ \E n \in DOMAIN processing_log :
              /\ processing_log[n].article_id = i /\ processing_log[n].run > 0
              /\ processing_log[n].status = "success"

\* the step ends the filter stage of run r: the logging loops finish, or the stage
\* of a run that skipped nothing finds no article to filter
FilterStageDone(r) ==
    \/ pc[r] = "filtering" /\ pc'[r] = "summarize"
    \/ pc[r] = "filter" /\ pc'[r] = "summarize" /\ clean[r] /\ clean'[r]

\* every stored item has a filter event (success or skipped) after the step
AllFiltered ==
    \A a \in Items :
        articles[a] # "absent" =>
            \E n \in DOMAIN processing_log' :
                /\ processing_log'[n].article_id = a
                /\ processing_log'[n].stage = "filtered"
                /\ processing_log'[n].status \in {"success", "skipped"}

\* C28: when a run has executed its filter stage every stored item has a filter
\* event, whether its body was extracted, failed to extract or was never tried
C28_FilterNeverBlocked ==
    [][\A r \in Runs : FilterStageDone(r) => AllFiltered]_vars

\* C28 as amended: the same for every run that is not a dry run
C28_FilterNeverBlockedUnlessDry ==
    [][\A r \in Runs : (FilterStageDone(r) /\ ~dryRun[r]) => AllFiltered]_vars

\* C28 witness: an item whose body extraction failed and whose body is still
\* empty has its filter event
C28_Witness ==
    \E a \in Items :
        /\ articles[a] = "empty"
        /\ HasRow(a, "scraped", "failed")
        /\ HasEvent(a, "filtered")

C30_OneRunAtATime ==
    /\ [](Cardinality({r \in Runs : InProgress(r)}) <= 1)
    /\ [][/\ runCount' # runCount => \A r \in Runs : ~InProgress(r)
          /\ (sched'.skipped # sched.skipped) => UNCHANGED <<runCount, pc>>]_vars

\* C30 witness: a trigger fired while a run was in progress and was skipped, and
\* a later trigger started the second run
C30_Witness ==
    /\ sched.skipped = 1
    /\ runCount = 2
    /\ \E r \in Runs : InProgress(r)

\* ---------------------------------------------------------------- dry runs
\* a run is between its start and its return
Running(r) == pc[r] \notin {"idle", "done"}

\* the positions of a run where an external service is being called or a stage
\* is writing
ServiceCallPoints == {"extract", "summarizing", "pushing", "notion"}

\* C31: a run started with dryRun = true writes no row of any table (articles,
\* processing_log, summaries, notion_sync, daily_briefings), creates no page at
\* the destination and never reaches a point where the text service or the
\* destination service is called, whatever the store holds and whatever stages
\* its skip flags leave out
C31_DryRunChangesNothing ==
    /\ [][\A r \in Runs : (Running(r) /\ dryRun[r]) => UNCHANGED storeVars]_vars
    /\ [](\A r \in Runs : dryRun[r] => pc[r] \notin ServiceCallPoints)

\* a dry run over a store that holds items without body has run the filter on
\* the items waiting for it and found matches, which it is about not to log
C31_Witness ==
    /\ dryRun[1]
    /\ pc[1] = "filtering"
    /\ batch[1] # <<>>
    /\ getArticlesWithEmptyContent(maxArticles[1]) # <<>>

\* --------------------------------------------- daily digest across midnight
\* the pipeline's digest step with the clock and the sync instants made
\* explicit: items are published and runDailyDigest is called in the hours
\* around a UTC midnight, under each local time-zone offset
FirstHour == 20
LastHour == 28

\* time passes
Elapse ==
    /\ clock.now < LastHour
    /\ clock' = [clock EXCEPT !.now = @ + 1]
    /\ UNCHANGED <<storeVars, runVars, qres, digestVars, period_key, monthVars,
                   matchVars, ingestVars, contentVars, procVars, auxVars>>

\* pushToNotion succeeds for a summarized item: recordNotionSync stamps
\* synced_at with datetime('now'), which is UTC
SyncItem(a) ==
    /\ synced_at[a] = NotSynced
    /\ summaries' = summaries \cup {a}
    /\ notionPages' = [notionPages EXCEPT ![a] = @ + 1]
    /\ notion_sync' = recordNotionSync(notion_sync, a, notionPages[a] + 1)
    /\ synced_at' = [synced_at EXCEPT ![a] = clock.now]
    /\ UNCHANGED <<articles, processing_log, daily_briefings, runVars, qres,
                   digestVars, calendarVars, monthVars, matchVars, ingestVars,
                   contentVars, procVars, summarizer, limiter, result>>

\* WHERE date(ns.synced_at) = date('now', 'localtime'), joined to summaries
getTodaySyncedArticlesAt(now, tz) ==
    {a \in Items : /\ a \in SyncedIds
                   /\ getSummary(a)
                   /\ toISODate(synced_at[a]) = LocalDate(now, tz)}

\* runDailyDigest called at the current instant
DailyDigest ==
    /\ LET date == toISODate(clock.now)
           articlesWithSummaries == getTodaySyncedArticlesAt(clock.now, clock.tz)
           count == Cardinality(articlesWithSummaries)
       IN /\ ~briefingExists(date)
          /\ articlesWithSummaries # {}
          /\ \E text \in TextOutcomes, page \in NotionOutcomes :
               LET saved == saveBriefing(daily_briefings,
                                [date |-> date, article_count |-> count,
                                 global_summary |-> generateGlobalSummary(text, count),
                                 notion_page_id |-> 0])
               IN daily_briefings' =
                      IF page = "ok" THEN updateBriefingNotionId(saved, date, 1)
                      ELSE saved
    /\ UNCHANGED <<articles, processing_log, summaries, notion_sync, notionPages,
                   runVars, qres, digestVars, calendarVars, monthVars, matchVars,
                   ingestVars, contentVars, procVars, auxVars>>

NextDaily == Elapse \/ (\E a \in Items : SyncItem(a)) \/ DailyDigest

InitDaily ==
    /\ InitStore
    /\ synced = [k \in Kinds |-> 0]
    /\ clock \in [now : {FirstHour}, tz : TzOffsets]

SpecDaily == InitDaily /\ [][NextDaily]_vars

\* the items with a summary and a sync record whose sync instant falls on a
\* calendar day, the day being read in UTC or in local time
SyncedOnUtcDay(day) ==
    {a \in Items : a \in SyncedIds /\ getSummary(a) /\ toISODate(synced_at[a]) = day}

SyncedOnLocalDay(day) ==
    {a \in Items : /\ a \in SyncedIds
                   /\ getSummary(a)
                   /\ LocalDate(synced_at[a], clock.tz) = day}

\* C32: whenever a daily briefing row is created, under any time-zone offset,
\* its article_count is the number of items with a summary and a sync record
\* whose synced_at falls on the day its date names (in UTC or in local time)
C32_CountIsItemsOfTheDay ==
    [][\A b \in daily_briefings' \ daily_briefings :
          \/ b.article_count = Cardinality(SyncedOnUtcDay(b.date))
          \/ b.article_count = Cardinality(SyncedOnLocalDay(b.date))]_vars

\* a daily briefing has been created west of UTC for the second UTC day
C32_Witness ==
    /\ clock.tz < 0
    /\ \E b \in daily_briefings : b.date = toISODate(LastHour)

\* ------------------------------------------------------- summarizeArticles
\* one call of summarizeArticles on a list of articles, its summarizeAndSave
\* calls settling in any order
MaxList == 4

ArticleLists == {[k \in 1..n |-> k] : n \in 0..MaxList}

ConcurrencyChoices == {1, MaxConcurrent}

\* faulty variant: every remaining article is taken into the batch
sliceRest(list, i, maxConcurrent) == SubSeq(list, i + 1, Len(list))

\* articles.slice(i, i + maxConcurrent)
sliceBatch(list, i, maxConcurrent) ==
    SubSeq(list, i + 1, Min(i + maxConcurrent, Len(list)))

\* the loop head and the batch.map(...) that starts the calls of the batch
StartBatch(s, i) ==
    IF i < Len(s.articles)
    THEN [s EXCEPT !.pc = "await", !.i = i,
                   !.inFlight = Range(sliceBatch(s.articles, i, s.maxConcurrent)),
                   !.batchResults = {}, !.batches = @ + 1]
    ELSE [s EXCEPT !.pc = "returned", !.i = i]

summarizeArticles ==
    /\ summarizer.pc = "idle"
    /\ \E list \in ArticleLists, maxConcurrent \in ConcurrencyChoices :
         summarizer' =
             StartBatch([NoBatch EXCEPT !.articles = list,
                                        !.maxConcurrent = maxConcurrent], 0)
    /\ UNCHANGED <<storeVars, runVars, qres, digestVars, calendarVars, monthVars,
                   matchVars, ingestVars, contentVars, procVars, synced_at, limiter,
                   result>>

\* one summarizeAndSave call settles; when it is the last of its batch,
\* Promise.all resolves, the results are tallied and the loop either sleeps or
\* goes on to its exit test
SettleCall ==
    /\ summarizer.pc = "await"
    /\ \E a \in summarizer.inFlight, success \in BOOLEAN :
         LET rest == summarizer.inFlight \ {a}
             results == summarizer.batchResults \cup {[article |-> a, success |-> success]}
             good == Cardinality({x \in results : x.success})
             tallied == [summarizer EXCEPT
                            !.inFlight = rest, !.batchResults = results,
                            !.processed = @ + Cardinality(results),
                            !.successful = @ + good,
                            !.failed = @ + Cardinality(results) - good]
         IN /\ IF success
               THEN /\ summaries' = summaries \cup {a}
                    /\ processing_log' =
                          logProcessing(processing_log, a, "summarized", "success", 0)
               ELSE /\ processing_log' =
                          logProcessing(processing_log, a, "summarized", "failed", 0)
                    /\ UNCHANGED summaries
            /\ summarizer' =
                 IF rest # {}
                 THEN [summarizer EXCEPT !.inFlight = rest, !.batchResults = results]
                 ELSE IF summarizer.i + summarizer.maxConcurrent < Len(summarizer.articles)
                 THEN [tallied EXCEPT !.pc = "delay"]
                 ELSE StartBatch(tallied, summarizer.i + summarizer.maxConcurrent)
    /\ UNCHANGED <<articles, notion_sync, daily_briefings, notionPages, runVars, qres,
                   digestVars, calendarVars, monthVars, matchVars, ingestVars,
                   contentVars, procVars, synced_at, limiter, result>>

\* setTimeout(resolve, delayMs) fires: the next iteration starts its batch
DelayElapsed ==
    /\ summarizer.pc = "delay"
    /\ summarizer' =
         StartBatch([summarizer EXCEPT !.delays = @ + 1],
                    summarizer.i + summarizer.maxConcurrent)
    /\ UNCHANGED <<storeVars, runVars, qres, digestVars, calendarVars, monthVars,
                   matchVars, ingestVars, contentVars, procVars, synced_at, limiter,
                   result>>

NextSummarize == summarizeArticles \/ SettleCall \/ DelayElapsed

SpecSummarize == Init /\ [][NextSummarize]_vars

\* C33: during summarizeArticles at most maxConcurrent summarizeAndSave calls
\* are in flight; calls are started only when none is in flight and, after the
\* first batch, only when the inter-batch delay has elapsed; the loop sleeps
\* only while articles remain, so no delay follows the last batch
C33_BoundedBatches ==
    /\ [](summarizer.pc # "idle" =>
            Cardinality(summarizer.inFlight) <= summarizer.maxConcurrent)
    /\ [][summarizer'.inFlight \ summarizer.inFlight # {} =>
            /\ summarizer.inFlight = {}
            /\ summarizer.batches > 0 => summarizer.pc = "delay"]_vars
    /\ [](summarizer.pc = "delay" =>
            summarizer.processed < Len(summarizer.articles))
    /\ [](summarizer.pc = "returned" /\ summarizer.batches > 0 =>
            summarizer.delays = summarizer.batches - 1)

\* a call with the default concurrency has returned after a full batch, one
\* delay and a batch of one
C33_Witness ==
    /\ summarizer.pc = "returned"
    /\ summarizer.maxConcurrent = MaxConcurrent
    /\ summarizer.processed = MaxConcurrent + 1
    /\ summarizer.batches = 2
    /\ summarizer.delays = 1

\* C34: with the default retry configuration (3 attempts, initial delay 1000 ms,
\* factor 2, cap 30000 ms) a call whose every attempt fails has waited 1000 ms,
\* then 2000 ms, then 4000 ms when it reports the failure
C34_WaitsOneTwoFour ==
    (retry.pc = "thrown" /\ retry.maxAttempts = DEFAULT_RETRY_CONFIG.maxAttempts) =>
        retry.waits = <<1000, 2000, 4000>>

\* a call with the default cap has failed three times and reported the failure
C34_Witness ==
    /\ retry.pc = "thrown"
    /\ retry.maxAttempts = DEFAULT_RETRY_CONFIG.maxAttempts
    /\ Len(retry.outcomes) = DEFAULT_RETRY_CONFIG.maxAttempts
    /\ retry.waits = <<1000, 2000>>

\* C35: once a daily briefing row exists for a date, no later pipeline run
\* changes its article_count or its global_summary: items published later on
\* the same day are not added to it
C35_DigestFrozen ==
    [][\A b \in daily_briefings :
          \E c \in daily_briefings' : /\ c.date = b.date
                                      /\ c.article_count = b.article_count
                                      /\ c.global_summary = b.global_summary]_vars

\* a second run has published a further item and gone through its digest step
\* on a day whose briefing counts a single item
C35_Witness ==
    /\ runCount = 2
    /\ pc[1] = "done"
    /\ ~dryRun[1]
    /\ Cardinality(getTodaySyncedArticles) = 2
    /\ \E b \in daily_briefings : b.date = "today" /\ b.article_count = 1

\* ------------------------------------------------------- draining the backlog
\* pipeline runs one after the other with every stage enabled, a feed that
\* offers its items to the first run only, and external services that answer:
\* the browser starts, each body is fetched, each summary is generated, each
\* page is created
FirstRunOffer == IF runCount = 1 THEN Items ELSE {}

LastRow(log) == log[Len(log)]

runDraining(r) ==
    \/ StartRun(r, {FALSE}, MaxArticlesChoices)
    \/ Scrape(r, FirstRunOffer, {"empty", "full"})
    \/ (ContentBegin(r) /\ pc'[r] # "done")
    \/ (Extract(r) /\ LastRow(processing_log').status = "success")
    \/ FilterBegin(r)
    \/ FilterLog(r)
    \/ SummarizeBegin(r)
    \/ (summarizeAndSave(r) /\ LastRow(processing_log').status = "success")
    \/ PushBegin(r)
    \/ pushArticleToNotion(r)
    \/ pushToNotion(r, {"none"})
    \/ runDailyDigest(r, {"ok"}, {"ok"})

NextDrain == runDraining(1)

\* a started run goes on to its end and the scheduler starts the next one
SpecDrain == Init /\ [][NextDrain]_vars /\ WF_vars(NextDrain)

\* every item that passed the filter has a summary and a sync record
Drained ==
    \A a \in Items :
        HasRow(a, "filtered", "success") => (getSummary(a) /\ isArticleSynced(a))

\* C36: when every external call succeeds and no item is ingested after the
\* first run, repeated runs drain the backlog: from some run on, every item
\* with a (filtered, success) row has a summary and a sync record, also when
\* the items eligible at a stage outnumber maxArticles
C36_BacklogDrains == <>[]Drained

\* a second run with maxArticles = 1 has ended with both items summarized and
\* published, the first run having left one of them behind
C36_Witness ==
    /\ runCount = 2
    /\ pc[1] = "done"
    /\ maxArticles[1] = 1
    /\ \A a \in Items : HasRow(a, "filtered", "success")
    /\ Drained
    /\ \E n \in DOMAIN processing_log :
          /\ processing_log[n].run = 2
          /\ processing_log[n].stage = "summarized"
          /\ processing_log[n].status = "success"
    /\ \E n \in DOMAIN processing_log :
          /\ processing_log[n].run = 1
          /\ processing_log[n].stage = "pushed"
          /\ processing_log[n].status = "success"

\* ------------------------------------------------------ scheduler liveness
\* the finally block runs once the awaited runPipeline promise has settled
SpecSchedulerFair == SpecScheduler /\ WF_vars(Finally)

\* the run started by the last trigger has returned or thrown, the flag is set
RunEnded ==
    /\ sched.isRunning
    /\ runCount > sched.base
    /\ \A r \in Runs : ~InProgress(r)

\* runPipeline rethrew an error (a run of the scheduler skips no stage)
Threw(r) == pc[r] = "done" /\ ~clean[r]

\* C37: after a scheduled run has ended, by return or by throw, isRunning is
\* set back to false, and a cron trigger that finds it false is not skipped
\* but takes the lock for a new run
C37_LockReleased ==
    /\ RunEnded ~> ~sched.isRunning
    /\ [][(~sched.isRunning /\ sched' # sched) =>
            (sched'.isRunning /\ sched'.skipped = sched.skipped)]_vars

\* the first scheduled run threw and a later trigger has started the second
C37_Witness ==
    /\ runCount = 2
    /\ sched.isRunning
    /\ \E r \in Runs : runId[r] = 1 /\ Threw(r)
    /\ \E r \in Runs : runId[r] = 2 /\ InProgress(r)

\* ------------------------------------------------- step 6 inside runPipeline
\* runPipeline from the end of step 5 to its return, with the statements of
\* runDailyDigest that can throw
DigestFaults ==
    {"none", "briefingExists", "getTodaySyncedArticles", "saveBriefing",
     "getArticlesWithNotionIds", "updateBriefingNotionId"}

\* steps 1 to 5 of a run: the items it published and the statistics it gathered
StepsOneToFive ==
    /\ result.pc \in {"idle", "returned"}
    /\ \E S \in SUBSET {a \in Items : ~isArticleSynced(a)}, failures \in 0..1 :
         /\ summaries' = summaries \cup S
         /\ notionPages' = [a \in Items |-> notionPages[a] + (IF a \in S THEN 1 ELSE 0)]
         /\ notion_sync' = notion_sync \cup
                            {[article_id |-> a, notion_page_id |-> 1] : a \in S}
         /\ result' = [NoResult EXCEPT !.pc = "step6", !.scraped = NItems,
                                       !.filtered = Cardinality(S) + failures,
                                       !.summarized = Cardinality(S),
                                       !.pushed = Cardinality(S),
                                       !.errors = failures]
    /\ UNCHANGED <<articles, processing_log, daily_briefings, runVars, qres, digestVars,
                   calendarVars, monthVars, matchVars, ingestVars, contentVars,
                   procVars, synced_at, summarizer, limiter>>

\* faulty variant: runDailyDigest lets the error through to its caller
runDailyDigestRethrows(error) == [success |-> FALSE, thrown |-> TRUE]

\* the catch block of runDailyDigest: { success: false, error }
runDailyDigestCatch(error) == [success |-> FALSE, thrown |-> FALSE]

DigestReturns == [success |-> TRUE, thrown |-> FALSE]

\* runDailyDigest with one of its statements throwing, or none: the value it
\* hands back and the daily_briefings table it leaves
DigestStep(fault, text, page) ==
    LET count == Cardinality(getTodaySyncedArticles)
        saved == saveBriefing(daily_briefings,
                     [date |-> "today", article_count |-> count,
                      global_summary |-> generateGlobalSummary(text, count),
                      notion_page_id |-> 0])
    IN IF fault = "briefingExists"
       THEN [out |-> runDailyDigestCatch(fault), table |-> daily_briefings]
       ELSE IF briefingExists("today")
       THEN [out |-> DigestReturns, table |-> daily_briefings]
       ELSE IF fault = "getTodaySyncedArticles"
       THEN [out |-> runDailyDigestCatch(fault), table |-> daily_briefings]
       ELSE IF count = 0
       THEN [out |-> DigestReturns, table |-> daily_briefings]
       ELSE IF fault = "saveBriefing"
       THEN [out |-> runDailyDigestCatch(fault), table |-> daily_briefings]
       ELSE IF fault = "getArticlesWithNotionIds"
       THEN [out |-> runDailyDigestCatch(fault), table |-> saved]
       ELSE IF page # "ok"
       THEN [out |-> DigestReturns, table |-> saved]
       ELSE IF fault = "updateBriefingNotionId"
       THEN [out |-> runDailyDigestCatch(fault), table |-> saved]
       ELSE [out |-> DigestReturns, table |-> updateBriefingNotionId(saved, "today", 1)]

\* step 6, the final stats and the return; an error that reaches the catch block
\* of runPipeline is counted and thrown again
StepSix ==
    /\ result.pc = "step6"
    /\ \E fault \in DigestFaults, text \in TextOutcomes, page \in NotionOutcomes :
         LET digestResult == DigestStep(fault, text, page)
         IN /\ daily_briefings' = digestResult.table
            /\ result' =
                 IF digestResult.out.thrown
                 THEN [result EXCEPT !.pc = "thrown", !.errors = @ + 1,
                                     !.digestResult = "thrown"]
                 ELSE [result EXCEPT !.pc = "returned",
                                     !.digestResult = IF digestResult.out.success
                                                      THEN "success" ELSE "failed"]
    /\ UNCHANGED <<articles, processing_log, summaries, notion_sync, notionPages,
                   runVars, qres, digestVars, calendarVars, monthVars, matchVars,
                   ingestVars, contentVars, procVars, synced_at, summarizer, limiter>>

NextStepSix == StepsOneToFive \/ StepSix

SpecStepSix == Init /\ [][NextStepSix]_vars

Statistics(r) ==
    [scraped |-> r.scraped, filtered |-> r.filtered, summarized |-> r.summarized,
     pushed |-> r.pushed, errors |-> r.errors]

\* C38: whatever fails inside the digest step, runPipeline does not throw and
\* returns the scraped, filtered, summarized, pushed and errors statistics it
\* had when the step began
C38_DigestFailureContained ==
    /\ [](result.pc # "thrown")
    /\ [][result.pc = "step6" =>
            /\ result'.pc = "returned"
            /\ Statistics(result') = Statistics(result)]_vars

\* a run has returned after its digest step failed, once the briefing row had
\* been written
C38_Witness ==
    /\ result.pc = "returned"
    /\ result.digestResult = "failed"
    /\ result.pushed > 0
    /\ daily_briefings # {}

\* ------------------------------------------------------ utils/rate-limiter.ts
\* one RateLimiter shared by callers of waitForSlot; time in milliseconds since
\* the limiter was built, Date.now() being far from the initial lastCallTime 0
NCallers == 2
MaxGrants == 3
StartTime == 10
EndTime == 16
RateChoices == {400, 500}

Callers == 1..NCallers

\* Math.ceil(1000 / requestsPerSecond)
CeilDiv(n, d) == (n + d - 1) \div d

Max(a, b) == IF a > b THEN a ELSE b

NotWaiting == [pc |-> "idle", wake |-> 0]

\* new RateLimiter(requestsPerSecond)
NewRateLimiter ==
    /\ limiter = NoLimiter
    /\ \E requestsPerSecond \in RateChoices :
         limiter' = [NoLimiter EXCEPT !.now = StartTime,
                                      !.minIntervalMs = CeilDiv(1000, requestsPerSecond),
                                      !.callers = [c \in Callers |-> NotWaiting]]
    /\ UNCHANGED <<storeVars, runVars, qres, digestVars, calendarVars, monthVars,
                   matchVars, ingestVars, contentVars, procVars, synced_at,
                   summarizer, result>>

\* time passes; a timer may fire later than it was set for
Advance ==
    /\ limiter # NoLimiter
    /\ limiter.now < EndTime
    /\ limiter' = [limiter EXCEPT !.now = @ + 1]
    /\ UNCHANGED <<storeVars, runVars, qres, digestVars, calendarVars, monthVars,
                   matchVars, ingestVars, contentVars, procVars, synced_at,
                   summarizer, result>>

\* this.lastCallTime = Date.now(): the slot is granted
Grant(l) == [l EXCEPT !.lastCallTime = l.now, !.grants = Append(@, l.now)]

\* waitForSlot up to its await: the wait is computed from lastCallTime as it is
\* at the call; without wait the slot is granted in the same turn
waitForSlot(c) ==
    /\ limiter # NoLimiter
    /\ limiter.callers[c].pc = "idle"
    /\ Len(limiter.grants) +
         Cardinality({d \in Callers : limiter.callers[d].pc = "sleeping"}) < MaxGrants
    /\ LET timeSinceLastCall == limiter.now - limiter.lastCallTime
           waitTime == Max(0, limiter.minIntervalMs - timeSinceLastCall)
       IN limiter' =
            IF waitTime > 0
            THEN [limiter EXCEPT !.callers[c] =
                                    [pc |-> "sleeping", wake |-> limiter.now + waitTime]]
            ELSE Grant(limiter)
    /\ UNCHANGED <<storeVars, runVars, qres, digestVars, calendarVars, monthVars,
                   matchVars, ingestVars, contentVars, procVars, synced_at,
                   summarizer, result>>

\* sleep(waitTime) is over: waitForSlot resumes and takes the slot
Resume(c) ==
    /\ limiter # NoLimiter
    /\ limiter.callers[c].pc = "sleeping"
    /\ limiter.now >= limiter.callers[c].wake
    /\ limiter' = Grant([limiter EXCEPT !.callers[c] = NotWaiting])
    /\ UNCHANGED <<storeVars, runVars, qres, digestVars, calendarVars, monthVars,
                   matchVars, ingestVars, contentVars, procVars, synced_at,
                   summarizer, result>>

NextLimiter ==
    \/ NewRateLimiter
    \/ Advance
    \/ \E c \in Callers : waitForSlot(c)
    \/ \E c \in Callers : Resume(c)

SpecLimiter == Init /\ [][NextLimiter]_vars

\* C39: any two slot grants of one limiter are at least minIntervalMs apart,
\* whatever the callers of waitForSlot and however their waits overlap
C39_GrantsSpaced ==
    \A j, k \in DOMAIN limiter.grants :
        j < k => limiter.grants[k] - limiter.grants[j] >= limiter.minIntervalMs

\* two callers have been granted a slot after waits that overlapped
C39_Witness ==
    /\ Len(limiter.grants) = MaxGrants
    /\ \A c \in Callers : limiter.callers[c].pc = "idle"
    /\ limiter.grants[2] = limiter.grants[3]

====
